---- MODULE Spec2Model ----
(***************************************************************************)
(* Model of the sqld operator-composition engine (taleeus/sqld).           *)
(*                                                                         *)
(* An operator (SqldFn) is a callback returning (fragment, values, error). *)
(* The caller constructs a tree of operator values and invokes the root.   *)
(* Three generations of the callback library are modelled; the            *)
(* variable pkg says which one the caller links against:                   *)
(*   "stmt"   src/operators.sqld.go, second file (Block, Select(columns)), *)
(*   "query"  src/operators.sqld.go, first file (Just, Columns, Join),     *)
(*   "legacy" src/legacy/operators.sqld.go and its sqld.go (New).          *)
(*                                                                         *)
(* A fragment is a sequence of tokens: every word (keyword, column name)   *)
(* is one token and every other character is a token of its own, so two    *)
(* fragments are the same text exactly when they are the same sequence.    *)
(*                                                                         *)
(* The string-based variant of the package (src/unnamed/part_002: If on a  *)
(* Params map, Cond, Section, OrderBy, the Fmt functions) and the model    *)
(* helpers (src/extensions.sqld.go) have callers and specifications of     *)
(* their own: SpecStr, SpecFmt, SpecCond and SpecModel.                    *)
(***************************************************************************)
EXTENDS Integers, Sequences, FiniteSets, TLC

\* pkg: the package linked; ops: the argument list being assembled;
\* root, res, done: the operator invoked, what it returned, whether it was;
\* guards: what the conditional constructors called so far selected;
\* pg: the query after PgPrepare; filters: the caller's testFilters;
\* firstRes: what the first invocation returned, once root is invoked again.
VARIABLES pkg, ops, root, res, done, guards, pg, filters, firstRes

\* The string-based variant.  pmap: the Params map; heap: the strings that
\* pointers point to; ifs: the calls of If made so far; strs: the strings
\* returned to the caller and not yet passed on; last: the last call that
\* combined strings; edits: the entries the caller put or deleted itself.
VARIABLES pmap, heap, ifs, strs, last, edits

\* lookups: the calls of the model helpers made so far.
VARIABLES lookups

treeVars == <<pkg, ops, root, res, done, guards, pg, filters, firstRes>>

strVars == <<pmap, heap, ifs, strs, last, edits>>

vars == <<treeVars, strVars, lookups>>

\* Largest number of operator values (nodes) the caller builds for one query.
MaxNodes == 4
\* Length of a non-empty slice handed to In.
MaxIn == 2
\* Largest number of If calls a caller of the string-based variant makes.
MaxCalls == 2
\* Largest number of calls combining strings (Cond, Not, Section, OrderBy).
MaxCombine == 2
\* Largest number of filters handed to the combinators.
MaxFilters == 3
\* Largest number of entries the caller puts into or deletes from Params.
MaxEdits == 1
\* Largest number of model helper calls.
MaxLookups == 2

Pkgs == {"stmt", "query", "legacy"}

NL == "\n"
TAB == "\t"

-----------------------------------------------------------------------------
(* Errors.  A Go error is nil, a sentinel, a fmt.Errorf("<tag>%w", cause)  *)
(* wrapper, or an errors.Join of several errors.                           *)

NilErr == [k |-> "nil", tag |-> "", es |-> <<>>]

Sentinel(name) == [k |-> "sentinel", tag |-> name, es |-> <<>>]

ErrNoColumns == Sentinel("no columns in statement")
ErrNilVal == Sentinel("value is nil")
ErrNilColumnExpr == Sentinel("column expression is nil")
ErrArgNotSlice == Sentinel("argument is not a slice")
ErrEmptySlice == Sentinel("slice is empty")
ErrNoOps == Sentinel("operations slice is empty")

\* fmt.Errorf(tag + "%w", cause)
Errorf(tag, cause) == [k |-> "wrap", tag |-> tag, es |-> <<cause>>]

\* errors.Join(a, b): nil arguments are discarded, nil if none is left.
errorsJoin(a, b) ==
  LET es == SelectSeq(<<a, b>>, LAMBDA e : e.k # "nil")
  IN  IF es = <<>> THEN NilErr ELSE [k |-> "join", tag |-> "", es |-> es]

\* errors.Is(err, target): err or anything it wraps or joins is target.
RECURSIVE Is(_, _)
Is(err, target) ==
  \/ err = target
  \/ \E i \in 1..Len(err.es) : Is(err.es[i], target)

\* strings.ToLower on the two boolean keywords
ToLower(cond) == IF cond = "AND" THEN "and" ELSE "or"

-----------------------------------------------------------------------------
(* driver.Value.  A bind value is a plain value, a pointer to one, or (a   *)
(* slice stored as a single value) a list of values.                       *)

PlainVal(n) == [k |-> "val", v |-> n, l |-> <<>>]
PtrVal(n) == [k |-> "ptr", v |-> n, l |-> <<>>]
ListVal(l) == [k |-> "list", v |-> 0, l |-> l]

\* mapSlice filling the result from the last element to the first
mapSlice_reversed(vals) == [i \in 1..Len(vals) |-> PlainVal(vals[Len(vals) + 1 - i])]

\* mapSlice: every element of the slice as a driver.Value, in order
mapSlice(vals) == [i \in 1..Len(vals) |-> PlainVal(vals[i])]

-----------------------------------------------------------------------------
(* What a callback returns, plus the log of the callbacks it invoked.      *)
(* nilv tells a nil slice from an allocated one.                           *)

Ret(s, vals, nilv, err, calls) ==
  [s |-> s, vals |-> vals, nilv |-> nilv, err |-> err, calls |-> calls]

\* return s, nil, nil
RetNil(s) == Ret(s, <<>>, TRUE, NilErr, <<>>)

-----------------------------------------------------------------------------
(* Operator values: the closure's kind and what it captured.               *)

\* op: the constructor; cols: the captured column names or text; isnil: the
\* captured pointer is nil; arg: the captured values; kids: the captured operators.
Node(op, cols, isnil, arg, kids) ==
  [op |-> op, cols |-> cols, isnil |-> isnil, arg |-> arg, kids |-> kids]

\* conditionals.sqld.go: NoOp
NoOpNode == Node("NoOp", <<>>, FALSE, <<>>, <<>>)

NoOp == RetNil(<<>>)

\* IfElse returning trueFn when pred() is false
IfElse_inverted(pred, trueFn, falseFn) == IF pred THEN falseFn ELSE trueFn

\* pred is the value pred() returns: IfElse calls it once, when the
\* conditional is constructed, and returns one of the operator values
IfElse(pred, trueFn, falseFn) == IF pred THEN trueFn ELSE falseFn

If(pred, op) == IfElse(pred, op, NoOpNode)

\* IfNotNilElse testing val == nil, as IfNilElse does
IfNotNilElse_testsNil(isnil, trueFn, falseFn) == IfElse(isnil, trueFn, falseFn)

\* val == nil is the captured pointer's isnil
IfNotNilElse(isnil, trueFn, falseFn) == IfElse(~isnil, trueFn, falseFn)

IfNotNil(isnil, op) == IfNotNilElse(isnil, op, NoOpNode)

IfNotEmptyElse(vals, trueFn, falseFn) == IfElse(Len(mapSlice(vals)) # 0, trueFn, falseFn)

IfNotEmpty(vals, op) == IfNotEmptyElse(vals, op, NoOpNode)

\* src/legacy/conditionals.sqld.go:59
IfStringNotEmptyElse(val, trueFn, falseFn) == IfElse(val # "", trueFn, falseFn)

IfStringNotEmpty(val, op) == IfStringNotEmptyElse(val, op, NoOpNode)

-----------------------------------------------------------------------------
(* String helpers on token sequences.                                      *)

\* strings.Join(elems, sep)
RECURSIVE stringsJoin(_, _)
stringsJoin(elems, sep) ==
  IF elems = <<>> THEN <<>>
  ELSE IF Len(elems) = 1 THEN elems[1]
  ELSE elems[1] \o sep \o stringsJoin(Tail(elems), sep)

\* strings.Repeat(s, count)
RECURSIVE stringsRepeat(_, _)
stringsRepeat(s, count) ==
  IF count = 0 THEN <<>> ELSE s \o stringsRepeat(s, count - 1)

\* number of occurrences of the token tok in the fragment s
Occurrences(s, tok) == Cardinality({i \in 1..Len(s) : s[i] = tok})

-----------------------------------------------------------------------------
(* Leaf operators.                                                         *)

\* src/operators.sqld.go:11 (query) and src/legacy/operators.sqld.go:11
Just(s) == RetNil(s)

\* src/operators.sqld.go:485 (stmt)
Block(block) == RetNil(block)

\* src/operators.sqld.go:18 (query) and src/legacy/operators.sqld.go:18
Columns(columns) ==
  IF Len(columns) = 0
  THEN Ret(<<>>, <<>>, TRUE, Errorf("columns: ", ErrNoColumns), <<>>)
  ELSE RetNil(stringsJoin([i \in 1..Len(columns) |-> <<columns[i]>>], <<",", NL, TAB>>))

\* src/operators.sqld.go:498 (stmt): Select(columns ...string)
Select_stmt(columns) ==
  IF Len(columns) = 0
  THEN Ret(<<>>, <<>>, TRUE, Errorf("select: ", ErrNoColumns), <<>>)
  ELSE RetNil(<<"SELECT", NL, TAB>>
              \o stringsJoin([i \in 1..Len(columns) |-> <<columns[i]>>], <<",", NL, TAB>>))

\* Eq[T](columnExpr, val *T): the same text in all three packages.
\* val is the pointer: isnil, or a pointer to the value v.
Eq(columnExpr, isnil, v) ==
  IF isnil
  THEN Ret(<<>>, <<>>, TRUE, Errorf("eq (" \o columnExpr \o "): ", ErrNilVal), <<>>)
  ELSE Ret(<<columnExpr, " ", "=", " ", "?">>, <<PtrVal(v)>>, FALSE, NilErr, <<>>)

\* columnExpr + " IN (" + strings.Repeat(", ?", len(vals))[1:] + ")"
InText(columnExpr, n) ==
  <<columnExpr, " ", "IN", " ", "(">> \o Tail(stringsRepeat(<<",", " ", "?">>, n)) \o <<")">>

\* src/operators.sqld.go:197 (query): In returns nothing for an empty slice
In(columnExpr, vals) ==
  IF Len(vals) = 0
  THEN RetNil(<<>>)
  ELSE Ret(InText(columnExpr, Len(vals)), mapSlice(vals), FALSE, NilErr, <<>>)

\* the single-statement In returning nothing for an empty slice
In_stmt_silent(columnExpr, vals) ==
  IF Len(vals) = 0
  THEN RetNil(<<>>)
  ELSE Ret(InText(columnExpr, Len(vals)), mapSlice(vals), FALSE, NilErr, <<>>)

\* src/operators.sqld.go:549 (stmt): In fails for an empty slice
In_stmt(columnExpr, vals) ==
  IF Len(vals) = 0
  THEN Ret(<<>>, <<>>, TRUE, Errorf("in (" \o columnExpr \o "): ", ErrEmptySlice), <<>>)
  ELSE Ret(InText(columnExpr, Len(vals)), mapSlice(vals), FALSE, NilErr, <<>>)

\* src/legacy/operators.sqld.go:229: In(columnExpr, vals *[]T)
legacy_In(columnExpr, vals) ==
  IF Len(vals) = 0
  THEN RetNil(<<>>)
  ELSE Ret(InText(columnExpr, Len(vals)), mapSlice(vals), FALSE, NilErr, <<>>)

\* src/operators.sqld.go:375: Asc(columnExpr *string)
Asc(columnExpr, isnil) ==
  IF isnil
  THEN Ret(<<>>, <<>>, TRUE, Errorf("asc: ", ErrNilColumnExpr), <<>>)
  ELSE RetNil(<<columnExpr, " ", "ASC">>)

\* src/operators.sqld.go:386: Desc(columnExpr *string); its error is tagged asc
Desc(columnExpr, isnil) ==
  IF isnil
  THEN Ret(<<>>, <<>>, TRUE, Errorf("asc: ", ErrNilColumnExpr), <<>>)
  ELSE RetNil(<<columnExpr, " ", "DESC">>)

\* src/legacy/operators.sqld.go:433: Sort(order, columnExpr string)
Sort(order, columnExpr) == RetNil(<<columnExpr, " ", order>>)

legacy_Asc(columnExpr) == Sort("ASC", columnExpr)

legacy_Desc(columnExpr) == Sort("DESC", columnExpr)

-----------------------------------------------------------------------------
(* Combinators.  rs is the sequence of what the children return when they  *)
(* are invoked; a combinator invokes child i at the point where its loop   *)
(* reads rs[i], and logs that child's calls there.                         *)

\* the calls of the children the loop has invoked so far
Invoked(calls, r) == calls \o r.calls

\* Not wrapping whatever its child rendered, an empty fragment included
Not_negatesAbsence(r) ==
  IF r.err # NilErr
  THEN Ret(<<>>, <<>>, TRUE, Errorf("not: ", r.err), r.calls)
  ELSE Ret(<<"NOT", "(">> \o r.s \o <<")">>, r.vals, r.nilv, NilErr, r.calls)

\* Not(op): the same text in all three packages (src/operators.sqld.go:157)
Not(r) ==
  IF r.err # NilErr
  THEN Ret(<<>>, <<>>, TRUE, Errorf("not: ", r.err), r.calls)
  ELSE IF r.s = <<>>
  THEN Ret(<<>>, <<>>, TRUE, NilErr, r.calls)
  ELSE Ret(<<"NOT", "(">> \o r.s \o <<")">>, r.vals, r.nilv, NilErr, r.calls)

\* boolCond leaving its loop at the first child that fails
boolCond_stopsAtFirstError(cond, rs) ==
  IF Len(rs) = 0
  THEN Ret(<<>>, <<>>, TRUE, Errorf(ToLower(cond) \o ": ", ErrNoOps), <<>>)
  ELSE
    LET loop[i \in 0..Len(rs)] ==
          IF i = 0
          THEN [sb |-> <<>>, vals |-> <<>>, errs |-> NilErr, atLeastOne |-> FALSE,
                calls |-> <<>>]
          ELSE
            LET st == loop[i - 1]
                r == rs[i]
            IN  IF st.errs # NilErr
                THEN st
                ELSE IF r.err # NilErr
                THEN [st EXCEPT !.errs = errorsJoin(st.errs, r.err),
                                !.calls = Invoked(st.calls, r)]
                ELSE IF r.s = <<>>
                THEN [st EXCEPT !.calls = Invoked(st.calls, r)]
                ELSE [sb |-> st.sb
                               \o (IF st.atLeastOne THEN <<cond, " ">> ELSE <<>>)
                               \o r.s \o <<NL>>,
                      vals |-> Append(st.vals, ListVal(r.vals)),
                      errs |-> NilErr,
                      atLeastOne |-> TRUE,
                      calls |-> Invoked(st.calls, r)]
        fin == loop[Len(rs)]
    IN  IF fin.errs # NilErr
        THEN Ret(<<>>, <<>>, TRUE, Errorf(cond \o ": ", fin.errs), fin.calls)
        ELSE Ret(fin.sb, fin.vals, FALSE, NilErr, fin.calls)

\* boolCond with "var sb strings.Builder" declared outside the callback:
\* the builder still holds what the earlier invocation wrote
boolCond_builderOutside(cond, rs) ==
  IF Len(rs) = 0
  THEN Ret(<<>>, <<>>, TRUE, Errorf(ToLower(cond) \o ": ", ErrNoOps), <<>>)
  ELSE
    LET loop[i \in 0..Len(rs)] ==
          IF i = 0
          THEN [sb |-> IF done THEN res.s ELSE <<>>, vals |-> <<>>, errs |-> NilErr,
                atLeastOne |-> FALSE, calls |-> <<>>]
          ELSE
            LET st == loop[i - 1]
                r == rs[i]
                errs == IF r.err # NilErr THEN errorsJoin(st.errs, r.err) ELSE st.errs
            IN  IF errs # NilErr \/ r.s = <<>>
                THEN [st EXCEPT !.errs = errs, !.calls = Invoked(st.calls, r)]
                ELSE [sb |-> st.sb
                               \o (IF st.atLeastOne THEN <<cond, " ">> ELSE <<>>)
                               \o r.s \o <<NL>>,
                      vals |-> Append(st.vals, ListVal(r.vals)),
                      errs |-> errs,
                      atLeastOne |-> TRUE,
                      calls |-> Invoked(st.calls, r)]
        fin == loop[Len(rs)]
    IN  IF fin.errs # NilErr
        THEN Ret(<<>>, <<>>, TRUE, Errorf(cond \o ": ", fin.errs), fin.calls)
        ELSE Ret(fin.sb, fin.vals, FALSE, NilErr, fin.calls)

\* src/operators.sqld.go:207 and :559 (the two copies are the same text)
boolCond(cond, rs) ==
  IF Len(rs) = 0
  THEN Ret(<<>>, <<>>, TRUE, Errorf(ToLower(cond) \o ": ", ErrNoOps), <<>>)
  ELSE
    LET loop[i \in 0..Len(rs)] ==
          IF i = 0
          THEN [sb |-> <<>>, vals |-> <<>>, errs |-> NilErr, atLeastOne |-> FALSE,
                calls |-> <<>>]
          ELSE
            LET st == loop[i - 1]
                r == rs[i]
                errs == IF r.err # NilErr THEN errorsJoin(st.errs, r.err) ELSE st.errs
            IN  IF errs # NilErr \/ r.s = <<>>
                THEN [st EXCEPT !.errs = errs, !.calls = Invoked(st.calls, r)]
                ELSE [sb |-> st.sb
                               \o (IF st.atLeastOne THEN <<cond, " ">> ELSE <<>>)
                               \o r.s \o <<NL>>,
                      vals |-> Append(st.vals, ListVal(r.vals)),
                      errs |-> errs,
                      atLeastOne |-> TRUE,
                      calls |-> Invoked(st.calls, r)]
        fin == loop[Len(rs)]
    IN  IF fin.errs # NilErr
        THEN Ret(<<>>, <<>>, TRUE, Errorf(cond \o ": ", fin.errs), fin.calls)
        ELSE Ret(fin.sb, fin.vals, FALSE, NilErr, fin.calls)

\* legacy boolCond without its "if !atLeastOne" return
legacy_boolCond_noAbsence(cond, rs) ==
  IF Len(rs) = 0
  THEN Ret(<<>>, <<>>, TRUE, Errorf(ToLower(cond) \o ": ", ErrNoOps), <<>>)
  ELSE
    LET loop[i \in 0..Len(rs)] ==
          IF i = 0
          THEN [sb |-> <<>>, vals |-> <<>>, errs |-> NilErr, atLeastOne |-> FALSE,
                calls |-> <<>>]
          ELSE
            LET st == loop[i - 1]
                r == rs[i]
                errs == IF r.err # NilErr THEN errorsJoin(st.errs, r.err) ELSE st.errs
            IN  IF errs # NilErr \/ r.s = <<>>
                THEN [st EXCEPT !.errs = errs, !.calls = Invoked(st.calls, r)]
                ELSE [sb |-> st.sb
                               \o (IF st.atLeastOne THEN <<cond, " ">> ELSE <<>>)
                               \o r.s \o <<NL>>,
                      vals |-> IF Len(r.vals) # 0 THEN st.vals \o r.vals ELSE st.vals,
                      errs |-> errs,
                      atLeastOne |-> TRUE,
                      calls |-> Invoked(st.calls, r)]
        fin == loop[Len(rs)]
    IN  IF fin.errs # NilErr
        THEN Ret(<<>>, <<>>, TRUE, Errorf(cond \o ": ", fin.errs), fin.calls)
        ELSE Ret(<<"(">> \o fin.sb \o <<")">>, fin.vals, FALSE, NilErr, fin.calls)

\* src/legacy/operators.sqld.go:246
legacy_boolCond(cond, rs) ==
  IF Len(rs) = 0
  THEN Ret(<<>>, <<>>, TRUE, Errorf(ToLower(cond) \o ": ", ErrNoOps), <<>>)
  ELSE
    LET loop[i \in 0..Len(rs)] ==
          IF i = 0
          THEN [sb |-> <<>>, vals |-> <<>>, errs |-> NilErr, atLeastOne |-> FALSE,
                calls |-> <<>>]
          ELSE
            LET st == loop[i - 1]
                r == rs[i]
                errs == IF r.err # NilErr THEN errorsJoin(st.errs, r.err) ELSE st.errs
            IN  IF errs # NilErr \/ r.s = <<>>
                THEN [st EXCEPT !.errs = errs, !.calls = Invoked(st.calls, r)]
                ELSE [sb |-> st.sb
                               \o (IF st.atLeastOne THEN <<cond, " ">> ELSE <<>>)
                               \o r.s \o <<NL>>,
                      vals |-> IF Len(r.vals) # 0 THEN st.vals \o r.vals ELSE st.vals,
                      errs |-> errs,
                      atLeastOne |-> TRUE,
                      calls |-> Invoked(st.calls, r)]
        fin == loop[Len(rs)]
    IN  IF fin.errs # NilErr
        THEN Ret(<<>>, <<>>, TRUE, Errorf(cond \o ": ", fin.errs), fin.calls)
        ELSE IF ~fin.atLeastOne
        THEN Ret(<<>>, <<>>, TRUE, NilErr, fin.calls)
        ELSE Ret(<<"(">> \o fin.sb \o <<")">>, fin.vals, FALSE, NilErr, fin.calls)

And(rs) == boolCond("AND", rs)

Or(rs) == boolCond("OR", rs)

legacy_And(rs) == legacy_boolCond("AND", rs)

legacy_Or(rs) == legacy_boolCond("OR", rs)

\* The loop shared by the current Where (src/operators.sqld.go:286, :638) and
\* Having (:408, :760): "\t" + s + "\n" per rendered child, the child's values
\* appended as one value.
sectionLoop(rs) ==
  LET loop[i \in 0..Len(rs)] ==
        IF i = 0
        THEN [sb |-> <<>>, vals |-> <<>>, errs |-> NilErr, calls |-> <<>>]
        ELSE
          LET st == loop[i - 1]
              r == rs[i]
              errs == IF r.err # NilErr THEN errorsJoin(st.errs, r.err) ELSE st.errs
          IN  IF errs # NilErr \/ r.s = <<>>
              THEN [st EXCEPT !.errs = errs, !.calls = Invoked(st.calls, r)]
              ELSE [sb |-> st.sb \o <<TAB>> \o r.s \o <<NL>>,
                    vals |-> Append(st.vals, ListVal(r.vals)),
                    errs |-> errs,
                    calls |-> Invoked(st.calls, r)]
  IN  loop[Len(rs)]

\* the legacy section loop writing s + "\n" without the leading "\t"
legacy_sectionLoop_noIndent(rs) ==
  LET loop[i \in 0..Len(rs)] ==
        IF i = 0
        THEN [sb |-> <<>>, vals |-> <<>>, errs |-> NilErr, calls |-> <<>>]
        ELSE
          LET st == loop[i - 1]
              r == rs[i]
              errs == IF r.err # NilErr THEN errorsJoin(st.errs, r.err) ELSE st.errs
          IN  IF errs # NilErr \/ r.s = <<>>
              THEN [st EXCEPT !.errs = errs, !.calls = Invoked(st.calls, r)]
              ELSE [sb |-> st.sb \o r.s \o <<NL>>,
                    vals |-> IF Len(r.vals) # 0 THEN st.vals \o r.vals ELSE st.vals,
                    errs |-> errs,
                    calls |-> Invoked(st.calls, r)]
  IN  loop[Len(rs)]

\* The same loop in src/legacy/operators.sqld.go:332 (Where) and :461 (Having):
\* the child's values are appended one by one.
legacy_sectionLoop(rs) ==
  LET loop[i \in 0..Len(rs)] ==
        IF i = 0
        THEN [sb |-> <<>>, vals |-> <<>>, errs |-> NilErr, calls |-> <<>>]
        ELSE
          LET st == loop[i - 1]
              r == rs[i]
              errs == IF r.err # NilErr THEN errorsJoin(st.errs, r.err) ELSE st.errs
          IN  IF errs # NilErr \/ r.s = <<>>
              THEN [st EXCEPT !.errs = errs, !.calls = Invoked(st.calls, r)]
              ELSE [sb |-> st.sb \o <<TAB>> \o r.s \o <<NL>>,
                    vals |-> IF Len(r.vals) # 0 THEN st.vals \o r.vals ELSE st.vals,
                    errs |-> errs,
                    calls |-> Invoked(st.calls, r)]
  IN  loop[Len(rs)]

\* Where returning what it had built when a child fails
Where_keepsPartial(rs) ==
  IF Len(rs) = 0
  THEN Ret(<<>>, <<>>, TRUE, Errorf("where: ", ErrNoOps), <<>>)
  ELSE
    LET fin == sectionLoop(rs)
    IN  IF fin.errs # NilErr
        THEN Ret(fin.sb, fin.vals, FALSE, Errorf("where:" \o NL \o TAB \o TAB, fin.errs), fin.calls)
        ELSE IF fin.sb = <<>>
        THEN Ret(<<>>, <<>>, TRUE, NilErr, fin.calls)
        ELSE Ret(<<"WHERE", NL>> \o fin.sb, fin.vals, FALSE, NilErr, fin.calls)

\* src/operators.sqld.go:286 and :638
Where(rs) ==
  IF Len(rs) = 0
  THEN Ret(<<>>, <<>>, TRUE, Errorf("where: ", ErrNoOps), <<>>)
  ELSE
    LET fin == sectionLoop(rs)
    IN  IF fin.errs # NilErr
        THEN Ret(<<>>, <<>>, TRUE, Errorf("where:" \o NL \o TAB \o TAB, fin.errs), fin.calls)
        ELSE IF fin.sb = <<>>
        THEN Ret(<<>>, <<>>, TRUE, NilErr, fin.calls)
        ELSE Ret(<<"WHERE", NL>> \o fin.sb, fin.vals, FALSE, NilErr, fin.calls)

\* src/operators.sqld.go:408 and :760
Having(rs) ==
  IF Len(rs) = 0
  THEN Ret(<<>>, <<>>, TRUE, Errorf("having: ", ErrNoOps), <<>>)
  ELSE
    LET fin == sectionLoop(rs)
    IN  IF fin.errs # NilErr
        THEN Ret(<<>>, <<>>, TRUE, Errorf("having:" \o NL \o TAB \o TAB, fin.errs), fin.calls)
        ELSE IF fin.sb = <<>>
        THEN Ret(<<>>, <<>>, TRUE, NilErr, fin.calls)
        ELSE Ret(<<"HAVING", NL>> \o fin.sb, fin.vals, FALSE, NilErr, fin.calls)

\* src/legacy/operators.sqld.go:332
legacy_Where(rs) ==
  IF Len(rs) = 0
  THEN Ret(<<>>, <<>>, TRUE, Errorf("where: ", ErrNoOps), <<>>)
  ELSE
    LET fin == legacy_sectionLoop(rs)
    IN  IF fin.errs # NilErr
        THEN Ret(<<>>, <<>>, TRUE, Errorf("where:" \o NL \o TAB \o TAB, fin.errs), fin.calls)
        ELSE IF fin.sb = <<>>
        THEN Ret(<<>>, <<>>, TRUE, NilErr, fin.calls)
        ELSE Ret(<<"WHERE", NL>> \o fin.sb, fin.vals, FALSE, NilErr, fin.calls)

\* src/legacy/operators.sqld.go:461
legacy_Having(rs) ==
  IF Len(rs) = 0
  THEN Ret(<<>>, <<>>, TRUE, Errorf("having: ", ErrNoOps), <<>>)
  ELSE
    LET fin == legacy_sectionLoop(rs)
    IN  IF fin.errs # NilErr
        THEN Ret(<<>>, <<>>, TRUE, Errorf("having:" \o NL \o TAB \o TAB, fin.errs), fin.calls)
        ELSE IF fin.sb = <<>>
        THEN Ret(<<>>, <<>>, TRUE, NilErr, fin.calls)
        ELSE Ret(<<"HAVING", NL>> \o fin.sb, fin.vals, FALSE, NilErr, fin.calls)

\* src/operators.sqld.go:332 and :684
OrderBy(rs) ==
  IF Len(rs) = 0
  THEN Ret(<<>>, <<>>, TRUE, Errorf("orderBy: ", ErrNoOps), <<>>)
  ELSE
    LET loop[i \in 0..Len(rs)] ==
          IF i = 0
          THEN [sb |-> <<>>, vals |-> <<>>, errs |-> NilErr, calls |-> <<>>]
          ELSE
            LET st == loop[i - 1]
                r == rs[i]
                errs == IF r.err # NilErr THEN errorsJoin(st.errs, r.err) ELSE st.errs
            IN  IF errs # NilErr \/ r.s = <<>>
                THEN [st EXCEPT !.errs = errs, !.calls = Invoked(st.calls, r)]
                ELSE [sb |-> st.sb \o r.s
                               \o (IF i # Len(rs) THEN <<",">> ELSE <<>>)
                               \o <<NL>>,
                      vals |-> Append(st.vals, ListVal(r.vals)),
                      errs |-> errs,
                      calls |-> Invoked(st.calls, r)]
        fin == loop[Len(rs)]
    IN  IF fin.errs # NilErr
        THEN Ret(<<>>, <<>>, TRUE, Errorf("orderBy:" \o NL \o TAB \o TAB, fin.errs), fin.calls)
        ELSE IF fin.sb = <<>>
        THEN Ret(<<>>, <<>>, TRUE, NilErr, fin.calls)
        ELSE Ret(<<"ORDER", " ", "BY", NL>> \o fin.sb, fin.vals, FALSE, NilErr, fin.calls)

\* The loop of src/legacy/operators.sqld.go:380 (OrderBy) and :502 (GroupBy):
\* ",\n\t" before every rendered child but the first.
legacy_listLoop(rs) ==
  LET loop[i \in 0..Len(rs)] ==
        IF i = 0
        THEN [sb |-> <<>>, vals |-> <<>>, errs |-> NilErr, atLeastOne |-> FALSE,
              calls |-> <<>>]
        ELSE
          LET st == loop[i - 1]
              r == rs[i]
              errs == IF r.err # NilErr THEN errorsJoin(st.errs, r.err) ELSE st.errs
          IN  IF errs # NilErr \/ r.s = <<>>
              THEN [st EXCEPT !.errs = errs, !.calls = Invoked(st.calls, r)]
              ELSE [sb |-> st.sb
                             \o (IF st.atLeastOne THEN <<",", NL, TAB>> ELSE <<>>)
                             \o r.s,
                    vals |-> IF Len(r.vals) # 0 THEN st.vals \o r.vals ELSE st.vals,
                    errs |-> errs,
                    atLeastOne |-> TRUE,
                    calls |-> Invoked(st.calls, r)]
  IN  loop[Len(rs)]

\* src/legacy/operators.sqld.go:380
legacy_OrderBy(rs) ==
  IF Len(rs) = 0
  THEN Ret(<<>>, <<>>, TRUE, Errorf("orderBy: ", ErrNoOps), <<>>)
  ELSE
    LET fin == legacy_listLoop(rs)
    IN  IF fin.errs # NilErr
        THEN Ret(<<>>, <<>>, TRUE, Errorf("orderBy:" \o NL \o TAB \o TAB, fin.errs), fin.calls)
        ELSE IF ~fin.atLeastOne
        THEN Ret(<<>>, <<>>, TRUE, NilErr, fin.calls)
        ELSE Ret(<<"ORDER", " ", "BY", NL>> \o fin.sb, fin.vals, FALSE, NilErr, fin.calls)

\* src/legacy/operators.sqld.go:502
GroupBy(rs) ==
  IF Len(rs) = 0
  THEN Ret(<<>>, <<>>, TRUE, Errorf("groupBy: ", ErrNoOps), <<>>)
  ELSE
    LET fin == legacy_listLoop(rs)
    IN  IF fin.errs # NilErr
        THEN Ret(<<>>, <<>>, TRUE, Errorf("groupBy:" \o NL \o TAB \o TAB, fin.errs), fin.calls)
        ELSE IF ~fin.atLeastOne
        THEN Ret(<<>>, <<>>, TRUE, NilErr, fin.calls)
        ELSE Ret(<<"GROUP", " ", "BY", NL>> \o fin.sb, fin.vals, FALSE, NilErr, fin.calls)

\* src/operators.sqld.go:30 (query): Select(ops ...SqldFn) returns at the first
\* child that fails; the children after it are not invoked.
Select(rs) ==
  IF Len(rs) = 0
  THEN Ret(<<>>, <<>>, TRUE, Errorf("select: ", ErrNoOps), <<>>)
  ELSE
    LET loop[i \in 0..Len(rs)] ==
          IF i = 0
          THEN [columns |-> <<>>, vals |-> <<>>, err |-> NilErr, calls |-> <<>>]
          ELSE
            LET st == loop[i - 1]
                r == rs[i]
            IN  IF st.err # NilErr
                THEN st
                ELSE IF r.err # NilErr
                THEN [st EXCEPT !.err = r.err, !.calls = Invoked(st.calls, r)]
                ELSE [columns |-> st.columns \o <<",", NL, TAB>> \o r.s,
                      vals |-> Append(st.vals, ListVal(r.vals)),
                      err |-> NilErr,
                      calls |-> Invoked(st.calls, r)]
        fin == loop[Len(rs)]
    IN  IF fin.err # NilErr
        THEN Ret(<<>>, <<>>, TRUE, Errorf("select: ", fin.err), fin.calls)
        ELSE Ret(<<"SELECT", NL, TAB>> \o fin.columns, fin.vals, FALSE, NilErr, fin.calls)

\* src/legacy/operators.sqld.go:30
legacy_Select(rs) ==
  IF Len(rs) = 0
  THEN Ret(<<>>, <<>>, TRUE, Errorf("select: ", ErrNoOps), <<>>)
  ELSE
    LET loop[i \in 0..Len(rs)] ==
          IF i = 0
          THEN [columns |-> <<>>, vals |-> <<>>, err |-> NilErr, calls |-> <<>>]
          ELSE
            LET st == loop[i - 1]
                r == rs[i]
            IN  IF st.err # NilErr
                THEN st
                ELSE IF r.err # NilErr
                THEN [st EXCEPT !.err = r.err, !.calls = Invoked(st.calls, r)]
                ELSE IF r.s = <<>>
                THEN [st EXCEPT !.calls = Invoked(st.calls, r)]
                ELSE [columns |-> Append(st.columns, r.s),
                      vals |-> IF Len(r.vals) # 0 THEN st.vals \o r.vals ELSE st.vals,
                      err |-> NilErr,
                      calls |-> Invoked(st.calls, r)]
        fin == loop[Len(rs)]
        columnsJoin == stringsJoin(fin.columns, <<",", NL, TAB>>)
    IN  IF fin.err # NilErr
        THEN Ret(<<>>, <<>>, TRUE, Errorf("select: ", fin.err), fin.calls)
        ELSE IF columnsJoin = <<>>
        THEN Ret(<<>>, <<>>, TRUE, Errorf("select: ", ErrNoColumns), fin.calls)
        ELSE Ret(<<"SELECT", NL, TAB>> \o columnsJoin, fin.vals, FALSE, NilErr, fin.calls)

\* From(op): src/operators.sqld.go:71 and src/legacy/operators.sqld.go:95
From(r) ==
  IF r.err # NilErr
  THEN Ret(<<>>, <<>>, TRUE, Errorf("from: ", r.err), r.calls)
  ELSE Ret(<<"FROM", " ">> \o r.s, r.vals, r.nilv, NilErr, r.calls)

\* SubQuery(op, aliasName): src/operators.sqld.go:128 and
\* src/legacy/operators.sqld.go:160; its error is tagged as
SubQuery(r, aliasName) ==
  IF r.err # NilErr
  THEN Ret(<<>>, <<>>, TRUE, Errorf("as: ", r.err), r.calls)
  ELSE Ret(<<"(", NL>> \o r.s \o <<NL, ")", " ", "AS", " ", aliasName>>,
           r.vals, r.nilv, NilErr, r.calls)

\* type JoinType (src/operators.sqld.go:84): the ten join-type keywords
JoinTypes ==
  {"LEFT", "RIGHT", "INNER", "CROSS", "FULL",
   "LEFT OUTER", "RIGHT OUTER", "INNER OUTER", "CROSS OUTER", "FULL OUTER"}

\* string(joinType) as tokens
JoinTypeText(joinType) ==
  CASE joinType = "LEFT OUTER" -> <<"LEFT", " ", "OUTER">>
    [] joinType = "RIGHT OUTER" -> <<"RIGHT", " ", "OUTER">>
    [] joinType = "INNER OUTER" -> <<"INNER", " ", "OUTER">>
    [] joinType = "CROSS OUTER" -> <<"CROSS", " ", "OUTER">>
    [] joinType = "FULL OUTER" -> <<"FULL", " ", "OUTER">>
    [] OTHER -> <<joinType>>

\* Join invoking the condition after a failed subject and joining both errors
Join_joinsErrors(joinType, subj, cnd) ==
  LET errs == errorsJoin(subj.err, cnd.err)
  IN  IF errs # NilErr
      THEN Ret(<<>>, <<>>, TRUE, Errorf(joinType \o " join: ", errs), subj.calls \o cnd.calls)
      ELSE Ret(JoinTypeText(joinType) \o <<" ", "JOIN", " ">> \o subj.s \o <<" ", "ON", " ">> \o cnd.s,
               subj.vals \o cnd.vals,
               subj.nilv /\ Len(cnd.vals) = 0,
               NilErr,
               subj.calls \o cnd.calls)

\* src/operators.sqld.go:99 (query): the condition is not invoked when the
\* subject fails.  subj and cnd are what subject() and op() return.
Join(joinType, subj, cnd) ==
  IF subj.err # NilErr
  THEN Ret(<<>>, <<>>, TRUE, Errorf(joinType \o " join: ", subj.err), subj.calls)
  ELSE IF cnd.err # NilErr
  THEN Ret(<<>>, <<>>, TRUE, Errorf(joinType \o " join: ", cnd.err), subj.calls \o cnd.calls)
  ELSE Ret(JoinTypeText(joinType) \o <<" ", "JOIN", " ">> \o subj.s \o <<" ", "ON", " ">> \o cnd.s,
           subj.vals \o cnd.vals,
           subj.nilv /\ Len(cnd.vals) = 0,
           NilErr,
           subj.calls \o cnd.calls)

\* src/legacy/operators.sqld.go:123
legacy_Join(joinType, subj, cnd) ==
  IF subj.err # NilErr
  THEN Ret(<<>>, <<>>, TRUE, Errorf(joinType \o " join: ", subj.err), subj.calls)
  ELSE IF cnd.err # NilErr
  THEN Ret(<<>>, <<>>, TRUE, Errorf(joinType \o " join: ", cnd.err), subj.calls \o cnd.calls)
  ELSE Ret(JoinTypeText(joinType) \o <<" ", "JOIN", " ">> \o subj.s \o <<" ", "ON", " ">> \o cnd.s,
           (IF Len(subj.vals) # 0 THEN <<ListVal(subj.vals)>> ELSE <<>>)
             \o (IF Len(cnd.vals) # 0 THEN <<ListVal(cnd.vals)>> ELSE <<>>),
           FALSE,
           NilErr,
           subj.calls \o cnd.calls)

\* New without its "len(ops) == 0" return
New_noEmptyCheck(rs) ==
  LET loop[i \in 0..Len(rs)] ==
        IF i = 0
        THEN [sb |-> <<>>, vals |-> <<>>, errs |-> NilErr, calls |-> <<>>]
        ELSE
          LET st == loop[i - 1]
              r == rs[i]
              errs == IF r.err # NilErr THEN errorsJoin(st.errs, r.err) ELSE st.errs
          IN  IF errs # NilErr
              THEN [st EXCEPT !.errs = errs, !.calls = Invoked(st.calls, r)]
              ELSE [sb |-> st.sb \o r.s \o <<NL>>,
                    vals |-> IF Len(r.vals) # 0 THEN st.vals \o r.vals ELSE st.vals,
                    errs |-> errs,
                    calls |-> Invoked(st.calls, r)]
      fin == loop[Len(rs)]
  IN  IF fin.errs # NilErr
      THEN Ret(<<>>, <<>>, TRUE, Errorf("query:" \o NL, fin.errs), fin.calls)
      ELSE Ret(fin.sb, fin.vals, FALSE, NilErr, fin.calls)

\* src/unnamed/part_003:44 (package sqld_legacy): New
New(rs) ==
  IF Len(rs) = 0
  THEN Ret(<<>>, <<>>, TRUE, Errorf("query: ", ErrNoOps), <<>>)
  ELSE
    LET loop[i \in 0..Len(rs)] ==
          IF i = 0
          THEN [sb |-> <<>>, vals |-> <<>>, errs |-> NilErr, calls |-> <<>>]
          ELSE
            LET st == loop[i - 1]
                r == rs[i]
                errs == IF r.err # NilErr THEN errorsJoin(st.errs, r.err) ELSE st.errs
            IN  IF errs # NilErr
                THEN [st EXCEPT !.errs = errs, !.calls = Invoked(st.calls, r)]
                ELSE [sb |-> st.sb \o r.s \o <<NL>>,
                      vals |-> IF Len(r.vals) # 0 THEN st.vals \o r.vals ELSE st.vals,
                      errs |-> errs,
                      calls |-> Invoked(st.calls, r)]
        fin == loop[Len(rs)]
    IN  IF fin.errs # NilErr
        THEN Ret(<<>>, <<>>, TRUE, Errorf("query:" \o NL, fin.errs), fin.calls)
        ELSE Ret(fin.sb, fin.vals, FALSE, NilErr, fin.calls)

\* New of package sqld (its sqld.go is not part of the sources): at least
\* one operator; every child is invoked; the non-empty fragments are joined
\* with newlines, the parameter lists concatenated, the errors joined.
sqld_New(rs) ==
  IF Len(rs) = 0
  THEN Ret(<<>>, <<>>, TRUE, Errorf("query: ", ErrNoOps), <<>>)
  ELSE
    LET loop[i \in 0..Len(rs)] ==
          IF i = 0
          THEN [frags |-> <<>>, vals |-> <<>>, errs |-> NilErr, calls |-> <<>>]
          ELSE
            LET st == loop[i - 1]
                r == rs[i]
                errs == IF r.err # NilErr THEN errorsJoin(st.errs, r.err) ELSE st.errs
            IN  IF errs # NilErr \/ r.s = <<>>
                THEN [st EXCEPT !.errs = errs, !.calls = Invoked(st.calls, r)]
                ELSE [frags |-> Append(st.frags, r.s),
                      vals |-> st.vals \o r.vals,
                      errs |-> errs,
                      calls |-> Invoked(st.calls, r)]
        fin == loop[Len(rs)]
    IN  IF fin.errs # NilErr
        THEN Ret(<<>>, <<>>, TRUE, Errorf("query: ", fin.errs), fin.calls)
        ELSE Ret(stringsJoin(fin.frags, <<NL>>), fin.vals, FALSE, NilErr, fin.calls)

\* fmt.Sprintf("$%d", i)
Placeholder(i) == "$" \o ToString(i)

\* strings.Replace(s, old, new, 1): the first occurrence, if there is one
stringsReplaceFirst(s, old, new) ==
  LET at == {i \in 1..Len(s) : s[i] = old}
  IN  IF at = {} THEN s
      ELSE LET first == CHOOSE i \in at : \A j \in at : i <= j
           IN  [s EXCEPT ![first] = new]

\* PgPrepare replacing every "?" at each turn of the loop (strings.ReplaceAll)
PgPrepare_replaceAll(query, args) ==
  LET loop[i \in 0..Len(args)] ==
        IF i = 0 THEN query
        ELSE [j \in 1..Len(query) |->
                IF loop[i - 1][j] = "?" THEN Placeholder(i) ELSE loop[i - 1][j]]
  IN  loop[Len(args)]

\* src/postgres.sqld.go:9 and src/legacy/operators.sqld.go:576
PgPrepare(query, args) ==
  LET loop[i \in 0..Len(args)] ==
        IF i = 0 THEN query
        ELSE stringsReplaceFirst(loop[i - 1], "?", Placeholder(i))
  IN  loop[Len(args)]

\* src/legacy/operators.sqld.go:586: the error of op is returned as it is
PgPrepareOp(r) ==
  IF r.err # NilErr
  THEN Ret(<<>>, <<>>, TRUE, r.err, r.calls)
  ELSE Ret(PgPrepare(r.s, r.vals), r.vals, r.nilv, NilErr, r.calls)

-----------------------------------------------------------------------------
(* Invoking an operator value: the closure of its constructor runs, and    *)
(* invokes the operators it captured.  path names the callback invoked.    *)

RECURSIVE Render(_, _, _)
Render(p, t, path) ==
  LET rs == [i \in 1..Len(t.kids) |-> Render(p, t.kids[i], Append(path, i))]
      v == IF t.arg = <<>> THEN 0 ELSE t.arg[1]
      col == IF t.cols = <<>> THEN "" ELSE t.cols[1]
      r == CASE t.op = "NoOp" -> NoOp
             [] t.op = "Just" -> Just(t.cols)
             [] t.op = "Block" -> Block(t.cols)
             [] t.op = "Columns" -> Columns(t.cols)
             [] t.op = "SelectColumns" -> Select_stmt(t.cols)
             [] t.op = "Eq" -> Eq(col, t.isnil, v)
             [] t.op = "In" ->
                  IF p = "stmt" THEN In_stmt(col, t.arg)
                  ELSE IF p = "query" THEN In(col, t.arg)
                  ELSE legacy_In(col, t.arg)
             [] t.op = "Asc" ->
                  IF p = "legacy" THEN legacy_Asc(col) ELSE Asc(col, t.isnil)
             [] t.op = "Desc" ->
                  IF p = "legacy" THEN legacy_Desc(col) ELSE Desc(col, t.isnil)
             [] t.op = "Not" -> Not(rs[1])
             [] t.op = "And" -> IF p = "legacy" THEN legacy_And(rs) ELSE And(rs)
             [] t.op = "Or" -> IF p = "legacy" THEN legacy_Or(rs) ELSE Or(rs)
             [] t.op = "Where" -> IF p = "legacy" THEN legacy_Where(rs) ELSE Where(rs)
             [] t.op = "Having" -> IF p = "legacy" THEN legacy_Having(rs) ELSE Having(rs)
             [] t.op = "OrderBy" -> IF p = "legacy" THEN legacy_OrderBy(rs) ELSE OrderBy(rs)
             [] t.op = "GroupBy" -> GroupBy(rs)
             [] t.op = "Select" -> IF p = "legacy" THEN legacy_Select(rs) ELSE Select(rs)
             [] t.op = "From" -> From(rs[1])
             [] t.op = "SubQuery" -> SubQuery(rs[1], col)
             [] t.op = "Join" ->
                  IF p = "legacy" THEN legacy_Join(col, rs[1], rs[2])
                  ELSE Join(col, rs[1], rs[2])
             [] t.op = "New" -> IF p = "legacy" THEN New(rs) ELSE sqld_New(rs)
             [] t.op = "PgPrepareOp" -> PgPrepareOp(rs[1])
  IN  [r EXCEPT !.calls = <<path>> \o r.calls]

-----------------------------------------------------------------------------
(* The string-based variant of package sqld (src/unnamed/part_002): the    *)
(* filters are strings, the values are bound by name in a Params map that  *)
(* If fills, and sqlx.Named resolves the ":argN" references.               *)

\* Go values handed to If: t is the type, n the number, s the text (or the
\* elements of a slice), a the address a pointer holds (0 is nil).
IntV(n) == [t |-> "int", n |-> n, s |-> <<>>, a |-> 0]
StrV(s) == [t |-> "string", n |-> 0, s |-> s, a |-> 0]
PtrV(a) == [t |-> "*string", n |-> 0, s |-> <<>>, a |-> a]
SliceV(l) == [t |-> "[]string", n |-> 0, s |-> l, a |-> 0]
\* time.UnixMilli(ms): a Time whose location is Local
TimeV(ms) == [t |-> "time.Time", n |-> ms, s |-> <<"Local">>, a |-> 0]

\* var zero T
Zero(t) == [t |-> t, n |-> 0, s |-> <<>>, a |-> 0]

\* FmtStartsWith[S string | *string](val S) S, with the strings pointers
\* point to kept in heap; returns the value and the heap after the call
FmtStartsWith(val, hp) ==
  IF val.t = "string"
  THEN IF val.s = <<>>
       THEN [val |-> val, heap |-> hp]
       ELSE [val |-> StrV(val.s \o <<"%">>), heap |-> hp]
  ELSE IF val.a = 0
       THEN [val |-> val, heap |-> hp]
       ELSE LET str == hp[val.a] \o <<"%">>
            IN  [val |-> PtrV(Len(hp) + 1), heap |-> Append(hp, str)]

FmtEndsWith(val, hp) ==
  IF val.t = "string"
  THEN IF val.s = <<>>
       THEN [val |-> val, heap |-> hp]
       ELSE [val |-> StrV(<<"%">> \o val.s), heap |-> hp]
  ELSE IF val.a = 0
       THEN [val |-> val, heap |-> hp]
       ELSE LET str == <<"%">> \o hp[val.a]
            IN  [val |-> PtrV(Len(hp) + 1), heap |-> Append(hp, str)]

\* FmtContains that writes the pattern through the caller's pointer
FmtContains_inPlace(val, hp) ==
  IF val.t = "string"
  THEN IF val.s = <<>>
       THEN [val |-> val, heap |-> hp]
       ELSE [val |-> StrV(<<"%">> \o val.s \o <<"%">>), heap |-> hp]
  ELSE IF val.a = 0
       THEN [val |-> val, heap |-> hp]
       ELSE [val |-> val, heap |-> [hp EXCEPT ![val.a] = <<"%">> \o @ \o <<"%">>]]

FmtContains(val, hp) ==
  IF val.t = "string"
  THEN IF val.s = <<>>
       THEN [val |-> val, heap |-> hp]
       ELSE [val |-> StrV(<<"%">> \o val.s \o <<"%">>), heap |-> hp]
  ELSE IF val.a = 0
       THEN [val |-> val, heap |-> hp]
       ELSE LET str == <<"%">> \o hp[val.a] \o <<"%">>
            IN  [val |-> PtrV(Len(hp) + 1), heap |-> Append(hp, str)]

Fmts == {"FmtStartsWith", "FmtEndsWith", "FmtContains"}

\* the caller's argument expression: val, or Fmt...(val)
Fmt(fn, val, hp) ==
  CASE fn = "FmtStartsWith" -> FmtStartsWith(val, hp)
    [] fn = "FmtEndsWith" -> FmtEndsWith(val, hp)
    [] fn = "FmtContains" -> FmtContains(val, hp)
    [] OTHER -> [val |-> val, heap |-> hp]

\* the PrinterFn values: Eq(target)(param) and the others
str_Eq(target, param) == target \o <<" ", "=", " ", ":", param>>
str_ILike(target, param) ==
  <<"LOWER", "(">> \o target \o <<")", " ", "LIKE", " ", "LOWER", "(", ":", param, ")">>
str_In(target, param) == target \o <<" ", "IN", "(", ":", param, ")">>
str_Gte(target, param) == target \o <<" ", ">", "=", " ", ":", param>>

PrinterFn(fn, target) == [fn |-> fn, target |-> target]

\* printer(argName)
Printer(printer, param) ==
  CASE printer.fn = "Eq" -> str_Eq(printer.target, param)
    [] printer.fn = "ILike" -> str_ILike(printer.target, param)
    [] printer.fn = "In" -> str_In(printer.target, param)
    [] printer.fn = "Gte" -> str_Gte(printer.target, param)

\* the predicates IfNotNil, IfNotZero and IfNotEmpty hand to If
Pred(fn, val) ==
  CASE fn = "IfNotNil" -> val.a # 0
    [] fn = "IfNotZero" -> val # Zero(val.t)
    [] fn = "IfNotEmpty" -> Len(val.s) > 0

\* params := make(sqld.Params)
NoParams == <<>>

\* If that names every parameter "arg0"
str_If_sameName(pred, val, params, printer) ==
  IF ~pred
  THEN [params |-> params, out |-> <<>>, name |-> "", printed |-> FALSE]
  ELSE
    LET argName == "arg" \o ToString(0)
    IN  [params |-> (argName :> val) @@ params,
         out |-> Printer(printer, argName),
         name |-> argName,
         printed |-> TRUE]

\* If(pred, val, params, printer), pred being the outcome of pred(val):
\* the map after the call, the filter returned, the name bound and whether
\* the printer was called
str_If(pred, val, params, printer) ==
  IF ~pred
  THEN [params |-> params, out |-> <<>>, name |-> "", printed |-> FALSE]
  ELSE
    LET argName == "arg" \o ToString(Cardinality(DOMAIN params))
    IN  [params |-> (argName :> val) @@ params,
         out |-> Printer(printer, argName),
         name |-> argName,
         printed |-> TRUE]

str_IfNotNil(val, params, printer) == str_If(Pred("IfNotNil", val), val, params, printer)
str_IfNotZero(val, params, printer) == str_If(Pred("IfNotZero", val), val, params, printer)
str_IfNotEmpty(val, params, printer) == str_If(Pred("IfNotEmpty", val), val, params, printer)

IfProxy(fn, val, params, printer) ==
  CASE fn = "IfNotNil" -> str_IfNotNil(val, params, printer)
    [] fn = "IfNotZero" -> str_IfNotZero(val, params, printer)
    [] fn = "IfNotEmpty" -> str_IfNotEmpty(val, params, printer)

\* Section without its check of an empty condition
str_Section_noCheck(sect, cond) == <<NL, sect, " ">> \o cond

\* Section(sect, cond)
str_Section(sect, cond) ==
  IF cond = <<>> THEN <<>> ELSE <<NL, sect, " ">> \o cond

str_Where(pred) == str_Section("WHERE", pred)
str_Having(pred) == str_Section("HAVING", pred)

\* Cond that writes the empty filters too
str_Cond_keepsEmpty(op, fs) ==
  LET loop[i \in 0..Len(fs)] ==
        IF i = 0 THEN <<>>
        ELSE LET bldr == loop[i - 1]
                 filter == fs[i]
             IN  bldr \o (IF bldr # <<>> THEN <<" ", op, NL, TAB>> ELSE <<>>) \o filter
      bldr == loop[Len(fs)]
  IN  IF bldr = <<>> THEN <<>> ELSE <<"(", NL, TAB>> \o bldr \o <<NL, ")">>

\* Cond(op, filters...)
str_Cond(op, fs) ==
  LET loop[i \in 0..Len(fs)] ==
        IF i = 0 THEN <<>>
        ELSE LET bldr == loop[i - 1]
                 filter == fs[i]
             IN  IF filter = <<>> THEN bldr
                 ELSE bldr \o (IF bldr # <<>> THEN <<" ", op, NL, TAB>> ELSE <<>>) \o filter
      bldr == loop[Len(fs)]
  IN  IF bldr = <<>> THEN <<>> ELSE <<"(", NL, TAB>> \o bldr \o <<NL, ")">>

str_And(fs) == str_Cond("AND", fs)
str_Or(fs) == str_Cond("OR", fs)

str_Not(filter) ==
  IF filter = <<>> THEN <<>> ELSE <<"NOT", "(">> \o filter \o <<")">>

str_Sort(column, sorting) == <<column, " ", sorting>>
str_Asc(column) == str_Sort(column, "ASC")
str_Desc(column) == str_Sort(column, "DESC")

\* OrderBy(sorts...)
str_OrderBy(sorts) ==
  LET loop[i \in 0..Len(sorts)] ==
        IF i = 0 THEN <<>>
        ELSE LET bldr == loop[i - 1]
                 sort == sorts[i]
             IN  IF sort = <<>> THEN bldr
                 ELSE bldr \o (IF Len(bldr) > 0 THEN <<",", NL, TAB>> ELSE <<>>) \o sort
      bldr == loop[Len(sorts)]
  IN  IF Len(bldr) = 0 THEN <<>> ELSE <<NL, "ORDER", " ", "BY", " ">> \o bldr

\* the strings the caller's pointers point to: "abc" at 1, "" at 2
HeapInit == <<<<"abc">>, <<>>>>

\* no string was combined yet
NoCall == [fn |-> "none", op |-> "", args |-> <<>>, out |-> <<>>, n |-> 0, from |-> <<>>]

\* nothing of the string-based variant was called
StrIdle ==
  /\ pmap = NoParams
  /\ heap = HeapInit
  /\ ifs = <<>>
  /\ strs = <<>>
  /\ last = NoCall
  /\ edits = 0

-----------------------------------------------------------------------------
(* The model helpers (src/extensions.sqld.go, and src/unnamed/part_000 in  *)
(* the string-based variant).  A Model is a struct type with a TableName   *)
(* method; its fields carry a name and a `db` tag ("" when absent).        *)

Field(name, db) == [Name |-> name, db |-> db]

\* testModel of TestColumns
testModel ==
  [type |-> "testModel", TableName |-> "TestModel",
   fields |-> <<Field("Hi", ""), Field("Named", "nameddd")>>]

\* a model of one untagged field
pizzaModel ==
  [type |-> "pizzaModel", TableName |-> "Pizza", fields |-> <<Field("name", "")>>]

Models == {testModel, pizzaModel}

TableName(M) == M.TableName

\* Columns[M]() and TableColumns[M]() are the same text
model_Columns(M) ==
  [i \in 1..Len(M.fields) |->
     LET field == M.fields[i]
         column == IF field.db = "" THEN field.Name ELSE field.db
     IN  M.TableName \o "." \o column]

TableColumns(M) == model_Columns(M)

slicesContains(list, x) == \E i \in 1..Len(list) : list[i] = x

\* fmt.Errorf("column %s not present in model %T", column, *new(M))
ErrNotPresent(column, M) ==
  Sentinel("column " \o column \o " not present in model " \o M.type)

\* ColumnErr[M](column): the string and the error returned
ColumnErr(M, column) ==
  IF ~slicesContains(model_Columns(M), column)
  THEN [s |-> "", err |-> ErrNotPresent(column, M), panics |-> FALSE]
  ELSE [s |-> TableName(M) \o "." \o column, err |-> NilErr, panics |-> FALSE]

\* Column[M](column): panics with the error of ColumnErr
Column(M, column) ==
  LET r == ColumnErr(M, column)
  IN  IF r.err # NilErr
      THEN [s |-> "", err |-> r.err, panics |-> TRUE]
      ELSE [s |-> r.s, err |-> NilErr, panics |-> FALSE]

TableColumnErr(M, column) ==
  IF ~slicesContains(TableColumns(M), column)
  THEN [s |-> "", err |-> ErrNotPresent(column, M), panics |-> FALSE]
  ELSE [s |-> TableName(M) \o "." \o column, err |-> NilErr, panics |-> FALSE]

TableColumn(M, column) ==
  LET r == TableColumnErr(M, column)
  IN  IF r.err # NilErr
      THEN [s |-> "", err |-> r.err, panics |-> TRUE]
      ELSE [s |-> r.s, err |-> NilErr, panics |-> FALSE]

Lookup(fn, M, column) ==
  CASE fn = "ColumnErr" -> ColumnErr(M, column)
    [] fn = "Column" -> Column(M, column)
    [] fn = "TableColumnErr" -> TableColumnErr(M, column)
    [] fn = "TableColumn" -> TableColumn(M, column)

-----------------------------------------------------------------------------
(* The caller.  ops is the argument list it is assembling: a constructor   *)
(* of a leaf adds an operator value at either end, a constructor of a      *)
(* combinator captures the whole list.  Invoke calls the finished root.    *)

RECURSIVE NodeCount(_)
NodeCount(t) ==
  LET sub[i \in 0..Len(t.kids)] ==
        IF i = 0 THEN 0 ELSE sub[i - 1] + NodeCount(t.kids[i])
  IN  1 + sub[Len(t.kids)]

RECURSIVE ValCount(_)
ValCount(t) ==
  LET sub[i \in 0..Len(t.kids)] ==
        IF i = 0 THEN 0 ELSE sub[i - 1] + ValCount(t.kids[i])
  IN  Len(t.arg) + sub[Len(t.kids)]

TotalNodes(list) ==
  LET sub[i \in 0..Len(list)] ==
        IF i = 0 THEN 0 ELSE sub[i - 1] + NodeCount(list[i])
  IN  sub[Len(list)]

TotalVals(list) ==
  LET sub[i \in 0..Len(list)] ==
        IF i = 0 THEN 0 ELSE sub[i - 1] + ValCount(list[i])
  IN  sub[Len(list)]

\* the next value the caller has not used yet: every bound value is distinct
Fresh == 42 + TotalVals(ops)

Room == ~done /\ TotalNodes(ops) < MaxNodes

\* what an operator renders: a condition, a sort directive, a column
\* expression or text, a section of the query, the query
Kind(t) ==
  CASE t.op \in {"Eq", "In", "And", "Or", "Not"} -> "cond"
    [] t.op \in {"Asc", "Desc"} -> "sort"
    [] t.op \in {"Just", "Columns", "SubQuery"} -> "col"
    [] t.op \in {"Block", "SelectColumns", "Where", "Having", "OrderBy", "GroupBy",
                 "Select", "From", "Join"} -> "sect"
    [] t.op \in {"New", "PgPrepareOp"} -> "query"
    [] OTHER -> "any"

AllOf(kinds) == \A i \in 1..Len(ops) : Kind(ops[i]) \in kinds \cup {"any"}

Put(front, op) == ops' = IF front THEN <<op>> \o ops ELSE Append(ops, op)

Capture(op, cols) == ops' = <<Node(op, cols, FALSE, <<>>, ops)>>

\* testFilters: Name and OrderBy are pointers, <<>> when nil and <<v>> when
\* pointing to v (OrderBy is a string in the legacy package, <<>> when "");
\* Pizzas is a slice
NoFilters == [Name |-> <<>>, Pizzas |-> <<>>, OrderBy |-> <<>>]

Unprepared == <<>>

\* the root was invoked at most once
InvokedOnce == <<>>

Init ==
  /\ pkg \in Pkgs
  /\ ops = <<>>
  /\ root = NoOpNode
  /\ res = NoOp
  /\ done = FALSE
  /\ guards = {}
  /\ pg = Unprepared
  /\ filters = NoFilters
  /\ firstRes = InvokedOnce
  /\ StrIdle
  /\ lookups = <<>>

MkEq ==
  /\ Room /\ AllOf({"cond"})
  /\ \E isnil \in BOOLEAN, guarded \in BOOLEAN, front \in BOOLEAN :
       LET leaf == Node("Eq", <<"id">>, isnil, IF isnil THEN <<>> ELSE <<Fresh>>, <<>>)
       IN  Put(front, IF guarded THEN IfNotNil(isnil, leaf) ELSE leaf)
  /\ UNCHANGED <<pkg, root, res, done, guards, pg, filters, firstRes, strVars, lookups>>

MkIn ==
  /\ Room /\ AllOf({"cond"})
  /\ \E empty \in BOOLEAN, guarded \in BOOLEAN, front \in BOOLEAN :
       LET vals == IF empty THEN <<>> ELSE [i \in 1..MaxIn |-> Fresh + i - 1]
           leaf == Node("In", <<"pizzas">>, FALSE, vals, <<>>)
       IN  Put(front, IF guarded THEN IfNotEmpty(vals, leaf) ELSE leaf)
  /\ UNCHANGED <<pkg, root, res, done, guards, pg, filters, firstRes, strVars, lookups>>

\* Asc / Desc: a *string in the current packages (guarded by IfNotNil), a
\* string in the legacy one (guarded by IfStringNotEmpty)
MkSort ==
  /\ Room /\ AllOf({"sort"})
  /\ \E dir \in {"Asc", "Desc"}, absent \in BOOLEAN, guarded \in BOOLEAN, front \in BOOLEAN :
       LET column == IF dir = "Asc" THEN "name" ELSE "created_at"
       IN  IF pkg = "legacy"
           THEN /\ guarded
                /\ Put(front, IfStringNotEmpty(IF absent THEN "" ELSE column,
                                               Node(dir, <<column>>, FALSE, <<>>, <<>>)))
           ELSE LET leaf == Node(dir, <<column>>, absent, <<>>, <<>>)
                IN  Put(front, IF guarded THEN IfNotNil(absent, leaf) ELSE leaf)
  /\ UNCHANGED <<pkg, root, res, done, guards, pg, filters, firstRes, strVars, lookups>>

MkJust ==
  /\ Room /\ AllOf({"col", "sect"})
  /\ pkg \in {"query", "legacy"}
  /\ \E front \in BOOLEAN : Put(front, Node("Just", <<"Table">>, FALSE, <<>>, <<>>))
  /\ UNCHANGED <<pkg, root, res, done, guards, pg, filters, firstRes, strVars, lookups>>

MkColumns ==
  /\ Room /\ AllOf({"col", "sect"})
  /\ pkg \in {"query", "legacy"}
  /\ \E columns \in {<<>>, <<"name", "pizzas">>}, front \in BOOLEAN :
       Put(front, Node("Columns", columns, FALSE, <<>>, <<>>))
  /\ UNCHANGED <<pkg, root, res, done, guards, pg, filters, firstRes, strVars, lookups>>

MkBlock ==
  /\ Room /\ AllOf({"sect"})
  /\ pkg = "stmt"
  /\ \E front \in BOOLEAN : Put(front, Node("Block", <<"FROM", " ", "Table">>, FALSE, <<>>, <<>>))
  /\ UNCHANGED <<pkg, root, res, done, guards, pg, filters, firstRes, strVars, lookups>>

MkSelectColumns ==
  /\ Room /\ AllOf({"sect"})
  /\ pkg = "stmt"
  /\ \E columns \in {<<>>, <<"name", "pizzas">>}, front \in BOOLEAN :
       Put(front, Node("SelectColumns", columns, FALSE, <<>>, <<>>))
  /\ UNCHANGED <<pkg, root, res, done, guards, pg, filters, firstRes, strVars, lookups>>

MkAnd ==
  /\ Room /\ AllOf({"cond"})
  /\ Capture("And", <<>>)
  /\ UNCHANGED <<pkg, root, res, done, guards, pg, filters, firstRes, strVars, lookups>>

MkOr ==
  /\ Room /\ AllOf({"cond"})
  /\ Capture("Or", <<>>)
  /\ UNCHANGED <<pkg, root, res, done, guards, pg, filters, firstRes, strVars, lookups>>

MkNot ==
  /\ Room /\ AllOf({"cond"}) /\ Len(ops) = 1
  /\ Capture("Not", <<>>)
  /\ UNCHANGED <<pkg, root, res, done, guards, pg, filters, firstRes, strVars, lookups>>

MkWhere ==
  /\ Room /\ AllOf({"cond"})
  /\ Capture("Where", <<>>)
  /\ UNCHANGED <<pkg, root, res, done, guards, pg, filters, firstRes, strVars, lookups>>

MkHaving ==
  /\ Room /\ AllOf({"cond"})
  /\ Capture("Having", <<>>)
  /\ UNCHANGED <<pkg, root, res, done, guards, pg, filters, firstRes, strVars, lookups>>

MkOrderBy ==
  /\ Room /\ AllOf({"sort"})
  /\ Capture("OrderBy", <<>>)
  /\ UNCHANGED <<pkg, root, res, done, guards, pg, filters, firstRes, strVars, lookups>>

MkGroupBy ==
  /\ Room /\ AllOf({"sort", "col"})
  /\ pkg = "legacy"
  /\ Capture("GroupBy", <<>>)
  /\ UNCHANGED <<pkg, root, res, done, guards, pg, filters, firstRes, strVars, lookups>>

MkSelect ==
  /\ Room /\ AllOf({"col"})
  /\ pkg \in {"query", "legacy"}
  /\ Capture("Select", <<>>)
  /\ UNCHANGED <<pkg, root, res, done, guards, pg, filters, firstRes, strVars, lookups>>

MkFrom ==
  /\ Room /\ AllOf({"col"}) /\ Len(ops) = 1
  /\ pkg \in {"query", "legacy"}
  /\ Capture("From", <<>>)
  /\ UNCHANGED <<pkg, root, res, done, guards, pg, filters, firstRes, strVars, lookups>>

\* SubQuery(op, "sub") over a query, a section or a column list
MkSubQuery ==
  /\ Room /\ Len(ops) = 1
  /\ Kind(ops[1]) \in {"col", "sect", "query"} /\ ops[1].op # "PgPrepareOp"
  /\ pkg \in {"query", "legacy"}
  /\ Capture("SubQuery", <<"sub">>)
  /\ UNCHANGED <<pkg, root, res, done, guards, pg, filters, firstRes, strVars, lookups>>

\* Join(joinType, subject, op): op is the condition assembled so far, the
\* subject is a table name or a column list that fails
MkJoin ==
  /\ ~done /\ TotalNodes(ops) + 1 < MaxNodes
  /\ AllOf({"cond"}) /\ Len(ops) = 1
  /\ pkg \in {"query", "legacy"}
  /\ \E joinType \in JoinTypes, fails \in BOOLEAN :
       LET subject == IF fails THEN Node("Columns", <<>>, FALSE, <<>>, <<>>)
                      ELSE Node("Just", <<"Table">>, FALSE, <<>>, <<>>)
       IN  ops' = <<Node("Join", <<joinType>>, FALSE, <<>>, <<subject, ops[1]>>)>>
  /\ UNCHANGED <<pkg, root, res, done, guards, pg, filters, firstRes, strVars, lookups>>

MkNew ==
  /\ Room /\ AllOf({"col", "sect"})
  /\ pkg = "legacy"
  /\ Capture("New", <<>>)
  /\ UNCHANGED <<pkg, root, res, done, guards, pg, filters, firstRes, strVars, lookups>>

\* PgPrepareOp(op), "use this as the last operator"
MkPgPrepareOp ==
  /\ Room /\ Len(ops) = 1
  /\ pkg = "legacy"
  /\ ops[1].op # "PgPrepareOp"
  /\ Capture("PgPrepareOp", <<>>)
  /\ UNCHANGED <<pkg, root, res, done, guards, pg, filters, firstRes, strVars, lookups>>

Invoke ==
  /\ ~done /\ Len(ops) = 1
  /\ root' = ops[1]
  /\ res' = Render(pkg, ops[1], <<>>)
  /\ done' = TRUE
  /\ ops' = <<>>
  /\ UNCHANGED <<pkg, guards, pg, filters, firstRes, strVars, lookups>>

\* query, args, err := q(); PgPrepare(query, args) when err is nil
Prepare ==
  /\ done /\ pg = Unprepared
  /\ res.err = NilErr
  /\ pg' = <<PgPrepare(res.s, res.vals)>>
  /\ UNCHANGED <<pkg, ops, root, res, done, guards, filters, firstRes, strVars, lookups>>

\* s, vals, err = q() once more on the operator value invoked before
Reinvoke ==
  /\ done /\ firstRes = InvokedOnce
  /\ firstRes' = <<res>>
  /\ res' = Render(pkg, root, <<>>)
  /\ UNCHANGED <<pkg, ops, root, done, guards, pg, filters, strVars, lookups>>

Next ==
  \/ MkEq \/ MkIn \/ MkSort \/ MkJust \/ MkColumns \/ MkBlock \/ MkSelectColumns
  \/ MkAnd \/ MkOr \/ MkNot \/ MkWhere \/ MkHaving \/ MkOrderBy \/ MkGroupBy
  \/ MkSelect \/ MkFrom \/ MkSubQuery \/ MkJoin \/ MkNew \/ MkPgPrepareOp
  \/ Invoke \/ Prepare \/ Reinvoke

Spec == Init /\ [][Next]_vars

-----------------------------------------------------------------------------
(* buildTestQuery(filters) and TestSqld: the caller evaluates the          *)
(* arguments of New from left to right, calls New and invokes the query.   *)

\* what a conditional constructor did: the value of its predicate, the two
\* operator values it was given and the one it returned
Selection(pred, trueFn, falseFn, chosen) ==
  [pred |-> pred, trueFn |-> trueFn, falseFn |-> falseFn, chosen |-> chosen]

\* the sort a caller falls back on when no order is asked for
DefaultSort == Node("Asc", <<"id">>, FALSE, <<>>, <<>>)

TestInit ==
  /\ pkg \in Pkgs
  /\ ops = <<>>
  /\ root = NoOpNode
  /\ res = NoOp
  /\ done = FALSE
  /\ guards = {}
  /\ pg = Unprepared
  /\ filters \in [Name : {<<>>, <<42>>},
                  Pizzas : {[i \in 1..n |-> 42 + i] : n \in 0..MaxIn},
                  OrderBy : {<<>>, <<"name">>}]
  /\ firstRes = InvokedOnce
  /\ StrIdle
  /\ lookups = <<>>

\* Select("name", "pizzas"), or Select(Columns("name", "pizzas"))
BuildSelect ==
  /\ ~done /\ ops = <<>>
  /\ ops' = IF pkg = "stmt"
            THEN <<Node("SelectColumns", <<"name", "pizzas">>, FALSE, <<>>, <<>>)>>
            ELSE <<Node("Select", <<>>, FALSE, <<>>,
                        <<Node("Columns", <<"name", "pizzas">>, FALSE, <<>>, <<>>)>>)>>
  /\ UNCHANGED <<pkg, root, res, done, guards, pg, filters, firstRes, strVars, lookups>>

\* Block("FROM Table"), or From(Just("Table"))
BuildFrom ==
  /\ ~done /\ Len(ops) = 1 /\ ops[1].op \in {"Select", "SelectColumns"}
  /\ ops' = Append(ops,
                   IF pkg = "stmt"
                   THEN Node("Block", <<"FROM", " ", "Table">>, FALSE, <<>>, <<>>)
                   ELSE Node("From", <<>>, FALSE, <<>>,
                             <<Node("Just", <<"Table">>, FALSE, <<>>, <<>>)>>))
  /\ UNCHANGED <<pkg, root, res, done, guards, pg, filters, firstRes, strVars, lookups>>

\* Where(Not(And(IfNotNil(filters.Name, Eq("name", filters.Name)),
\*               IfNotEmpty(filters.Pizzas, In("pizzas", filters.Pizzas)))))
BuildWhere ==
  /\ ~done /\ Len(ops) = 2
  /\ LET eq == Node("Eq", <<"name">>, filters.Name = <<>>, filters.Name, <<>>)
         in == Node("In", <<"pizzas">>, FALSE, filters.Pizzas, <<>>)
         name == IfNotNil(filters.Name = <<>>, eq)
         pizzas == IfNotEmpty(filters.Pizzas, in)
         and == Node("And", <<>>, FALSE, <<>>, <<name, pizzas>>)
         not == Node("Not", <<>>, FALSE, <<>>, <<and>>)
     IN  /\ ops' = Append(ops, Node("Where", <<>>, FALSE, <<>>, <<not>>))
         /\ guards' = guards
              \cup {Selection(filters.Name # <<>>, eq, NoOpNode, name),
                    Selection(Len(mapSlice(filters.Pizzas)) # 0, in, NoOpNode, pizzas)}
  /\ UNCHANGED <<pkg, root, res, done, pg, filters, firstRes, strVars, lookups>>

\* OrderBy(IfNotNil(filters.OrderBy, Desc(filters.OrderBy))), or with
\* IfNotNilElse and a default sort; the legacy test passes the string:
\* OrderBy(Desc(filters.OrderBy)), or guards it with IfStringNotEmpty
BuildOrderBy ==
  /\ ~done /\ Len(ops) = 3
  /\ \E guarded \in BOOLEAN, fallback \in BOOLEAN :
       LET absent == filters.OrderBy = <<>>
           val == IF absent THEN "" ELSE filters.OrderBy[1]
           desc == IF pkg = "legacy"
                   THEN Node("Desc", <<val>>, FALSE, <<>>, <<>>)
                   ELSE Node("Desc", filters.OrderBy, absent, <<>>, <<>>)
           falseFn == IF fallback THEN DefaultSort ELSE NoOpNode
           chosen == IF pkg = "legacy"
                     THEN IF fallback THEN IfStringNotEmptyElse(val, desc, falseFn)
                          ELSE IfStringNotEmpty(val, desc)
                     ELSE IF fallback THEN IfNotNilElse(absent, desc, falseFn)
                          ELSE IfNotNil(absent, desc)
       IN  IF guarded
           THEN /\ ops' = Append(ops, Node("OrderBy", <<>>, FALSE, <<>>, <<chosen>>))
                /\ guards' = guards \cup {Selection(~absent, desc, falseFn, chosen)}
           ELSE /\ pkg = "legacy" /\ ~fallback
                /\ ops' = Append(ops, Node("OrderBy", <<>>, FALSE, <<>>, <<desc>>))
                /\ guards' = guards
  /\ UNCHANGED <<pkg, root, res, done, pg, filters, firstRes, strVars, lookups>>

\* New(select, from, where, orderBy)
BuildNew ==
  /\ ~done /\ Len(ops) = 4
  /\ Capture("New", <<>>)
  /\ UNCHANGED <<pkg, root, res, done, guards, pg, filters, firstRes, strVars, lookups>>

\* s, _, err := query()
RunQuery ==
  /\ ~done /\ Len(ops) = 1 /\ ops[1].op = "New"
  /\ root' = ops[1]
  /\ res' = Render(pkg, ops[1], <<>>)
  /\ done' = TRUE
  /\ ops' = <<>>
  /\ UNCHANGED <<pkg, guards, pg, filters, firstRes, strVars, lookups>>

TestNext ==
  \/ BuildSelect \/ BuildFrom \/ BuildWhere \/ BuildOrderBy \/ BuildNew
  \/ RunQuery

SpecTest == TestInit /\ [][TestNext]_vars

-----------------------------------------------------------------------------
(* A caller of the string-based variant: it calls the If proxies on one    *)
(* Params map, combines the filters they return with Cond, Not, Section    *)
(* and OrderBy, and may put or delete entries of the map itself.           *)

\* the caller links the string-based package and builds no operator tree
StrInit ==
  /\ pkg = "sqld"
  /\ ops = <<>>
  /\ root = NoOpNode
  /\ res = NoOp
  /\ done = FALSE
  /\ guards = {}
  /\ pg = Unprepared
  /\ filters = NoFilters
  /\ firstRes = InvokedOnce
  /\ StrIdle
  /\ lookups = <<>>

\* one call of an If proxy by the caller, its argument being orig or
\* fmt(orig): everything the call read, did and returned
IfCall(fn, pred, fmt, orig, printer, ps, hp) ==
  LET f == Fmt(fmt, orig, hp)
      p == IF fn = "If" THEN pred ELSE Pred(fn, f.val)
      r == IF fn = "If" THEN str_If(pred, f.val, ps, printer)
                        ELSE IfProxy(fn, f.val, ps, printer)
  IN  [fn |-> fn, fmt |-> fmt, orig |-> orig, val |-> f.val, pred |-> p,
       printer |-> printer, before |-> ps, after |-> r.params,
       heap0 |-> hp, heap1 |-> f.heap,
       name |-> r.name, out |-> r.out, printed |-> r.printed]

\* the calls the caller chooses from: the proxy, the value and the printer
IfArgs ==
  {[fn |-> "IfNotZero", orig |-> IntV(n), printer |-> PrinterFn("Eq", <<"id">>)] :
      n \in {0, 7}}
  \cup {[fn |-> "IfNotZero", orig |-> StrV(s), printer |-> PrinterFn("ILike", <<"name">>)] :
      s \in {<<>>, <<"abc">>}}
  \cup {[fn |-> "IfNotNil", orig |-> PtrV(a), printer |-> PrinterFn("ILike", <<"name">>)] :
      a \in 0..Len(HeapInit)}
  \cup {[fn |-> "IfNotEmpty", orig |-> SliceV(l), printer |-> PrinterFn("In", <<"pizzas">>)] :
      l \in {<<>>, <<"margherita">>}}
  \cup {[fn |-> "If", orig |-> IntV(7), printer |-> PrinterFn("Gte", <<"id">>)]}

\* IfNotZero(val, &params, printer) and the other calls of IfArgs
CallIf ==
  /\ Len(ifs) < MaxCalls /\ last.fn # "FuzzFilters"
  /\ \E a \in IfArgs, pred \in BOOLEAN :
       /\ a.fn # "If" => pred
       /\ LET c == IfCall(a.fn, pred, "none", a.orig, a.printer, pmap, heap)
          IN  /\ ifs' = Append(ifs, c)
              /\ pmap' = c.after
              /\ heap' = c.heap1
              /\ strs' = Append(strs, c.out)
  /\ UNCHANGED <<last, edits, treeVars, lookups>>

\* IfNotZero(FmtContains(val), &params, printer) and the like, on a string
\* or on a pointer to a string
CallIfFmt ==
  /\ Len(ifs) < MaxCalls
  /\ \E a \in IfArgs, fmt \in Fmts :
       /\ a.orig.t \in {"string", "*string"}
       /\ LET c == IfCall(a.fn, TRUE, fmt, a.orig, a.printer, pmap, heap)
          IN  /\ ifs' = Append(ifs, c)
              /\ pmap' = c.after
              /\ heap' = c.heap1
              /\ strs' = Append(strs, c.out)
  /\ UNCHANGED <<last, edits, treeVars, lookups>>

\* keep the first n strings of the caller's list and add one
Replace(n, out) == Append(SubSeq(strs, 1, Len(strs) - n), out)

\* a call combining strings: what it was given and returned, how many
\* such calls were made, and the call made before it
CombineCall(fn, op, args, out) ==
  [fn |-> fn, op |-> op, args |-> args, out |-> out, n |-> last.n + 1,
   from |-> <<[fn |-> last.fn, op |-> last.op, args |-> last.args, out |-> last.out]>>]

\* And(f1, ..., fn) or Or(f1, ..., fn) over the last n strings returned
CallCond ==
  /\ last.n < MaxCombine /\ last.fn # "FuzzFilters"
  /\ \E op \in {"AND", "OR"}, n \in 1..Len(strs) :
       LET args == SubSeq(strs, Len(strs) - n + 1, Len(strs))
           out == IF op = "AND" THEN str_And(args) ELSE str_Or(args)
       IN  /\ strs' = Replace(n, out)
           /\ last' = CombineCall("Cond", op, args, out)
  /\ UNCHANGED <<pmap, heap, ifs, edits, treeVars, lookups>>

CallNot ==
  /\ last.n < MaxCombine /\ last.fn # "FuzzFilters"
  /\ strs # <<>>
  /\ LET filter == strs[Len(strs)]
     IN  /\ strs' = Replace(1, str_Not(filter))
         /\ last' = CombineCall("Not", "NOT", <<filter>>, str_Not(filter))
  /\ UNCHANGED <<pmap, heap, ifs, edits, treeVars, lookups>>

\* Where(pred) or Having(pred)
CallSection ==
  /\ last.n < MaxCombine /\ last.fn # "FuzzFilters"
  /\ strs # <<>>
  /\ \E sect \in {"WHERE", "HAVING"} :
       LET cond == strs[Len(strs)]
           out == IF sect = "WHERE" THEN str_Where(cond) ELSE str_Having(cond)
       IN  /\ strs' = Replace(1, out)
           /\ last' = CombineCall("Section", sect, <<cond>>, out)
  /\ UNCHANGED <<pmap, heap, ifs, edits, treeVars, lookups>>

CallOrderBy ==
  /\ last.n < MaxCombine /\ last.fn # "FuzzFilters"
  /\ \E sorts \in {<<>>, <<<<>>>>, <<str_Asc("name")>>, <<<<>>, str_Desc("name")>>,
                   <<str_Asc("name"), <<>>, str_Desc("created_at")>>} :
       /\ last' = CombineCall("OrderBy", "", sorts, str_OrderBy(sorts))
  /\ UNCHANGED <<pmap, heap, ifs, strs, edits, treeVars, lookups>>

\* (*params)[key] = 9, written by the caller
CallerPut ==
  /\ edits < MaxEdits /\ last.fn # "FuzzFilters"
  /\ \E key \in {"arg0", "arg1", "limit"} :
       pmap' = (key :> IntV(9)) @@ pmap
  /\ edits' = edits + 1
  /\ UNCHANGED <<heap, ifs, strs, last, treeVars, lookups>>

\* delete(params, key)
CallerDelete ==
  /\ edits < MaxEdits /\ last.fn # "FuzzFilters"
  /\ \E key \in DOMAIN pmap :
       pmap' = [k \in DOMAIN pmap \ {key} |-> pmap[k]]
  /\ edits' = edits + 1
  /\ UNCHANGED <<heap, ifs, strs, last, treeVars, lookups>>

\* the body of the fuzz target up to sqlx.Named: the arguments are
\* evaluated from left to right on a fresh Params map
FuzzFilters ==
  /\ ifs = <<>> /\ strs = <<>> /\ edits = 0 /\ last = NoCall
  /\ \E id \in {0, 7}, name \in {<<>>, <<"abc">>}, createdAtMs \in {0, 5},
        count \in {0, 3}, shouldOrder \in BOOLEAN :
       LET c1 == IfCall("IfNotZero", TRUE, "none", IntV(id),
                        PrinterFn("Eq", <<"id">>), NoParams, heap)
           c2 == IfCall("IfNotZero", TRUE, "FmtContains", StrV(name),
                        PrinterFn("ILike", <<"name">>), c1.after, c1.heap1)
           c3 == IfCall("IfNotZero", TRUE, "none", TimeV(createdAtMs),
                        PrinterFn("Gte", <<"created_at">>), c2.after, c2.heap1)
           where == str_Where(str_And(<<c1.out, str_Or(<<c2.out, c3.out>>)>>))
           c4 == IfCall("IfNotZero", TRUE, "none", IntV(count),
                        PrinterFn("Gte", <<"COUNT", "(", "*", ")">>), c3.after, c3.heap1)
           having == str_Having(c4.out)
           dynquery ==
             <<NL, TAB, TAB, TAB, "SELECT",
               NL, TAB, TAB, TAB, TAB, "COUNT", "(", "id", ")", ",",
               NL, TAB, TAB, TAB, TAB, "name", ",",
               NL, TAB, TAB, TAB, TAB, "created_at",
               NL, TAB, TAB, TAB, "FROM", " ", "model",
               NL, TAB, TAB, TAB>> \o where \o
             <<NL, TAB, TAB, TAB, "GROUP", " ", "BY",
               NL, TAB, TAB, TAB, TAB, "name", ",",
               NL, TAB, TAB, TAB, TAB, "created_at",
               NL, TAB, TAB, TAB>> \o having
           order == IF shouldOrder
                    THEN str_OrderBy(<<str_Asc("name"), str_Desc("created_at")>>)
                    ELSE <<>>
       IN  /\ ifs' = <<c1, c2, c3, c4>>
           /\ pmap' = c4.after
           /\ heap' = c4.heap1
           /\ strs' = <<where, having, order>>
           /\ last' = [fn |-> "FuzzFilters", op |-> "", args |-> <<where, having, order>>,
                       out |-> dynquery \o order, n |-> 1, from |-> <<>>]
  /\ UNCHANGED <<edits, treeVars, lookups>>

StrNext == CallIf \/ CallerPut \/ CallerDelete \/ FuzzFilters

SpecStr == StrInit /\ [][StrNext]_vars

\* a caller that formats every value it hands to If
FmtNext == CallIfFmt

SpecFmt == StrInit /\ [][FmtNext]_vars

\* the filters a caller passes to the combinators: printed or absent
Filters == {<<>>, str_Eq(<<"id">>, "arg0"), str_Gte(<<"created_at">>, "arg1")}

\* a caller holding up to MaxFilters strings returned by If calls
CondInit ==
  /\ pkg = "sqld"
  /\ ops = <<>>
  /\ root = NoOpNode
  /\ res = NoOp
  /\ done = FALSE
  /\ guards = {}
  /\ pg = Unprepared
  /\ filters = NoFilters
  /\ firstRes = InvokedOnce
  /\ pmap = NoParams
  /\ heap = HeapInit
  /\ ifs = <<>>
  /\ strs \in UNION {[1..n -> Filters] : n \in 0..MaxFilters}
  /\ last = NoCall
  /\ edits = 0
  /\ lookups = <<>>

CondNext == CallCond \/ CallNot \/ CallSection \/ CallOrderBy

SpecCond == CondInit /\ [][CondNext]_vars

-----------------------------------------------------------------------------
(* A caller of the model helpers.                                          *)

\* the column arguments tried: the bare names, the prefixed ones, others
ColumnArgs(M) ==
  {M.fields[i].Name : i \in 1..Len(M.fields)}
  \cup {M.fields[i].db : i \in 1..Len(M.fields)}
  \cup {model_Columns(M)[i] : i \in 1..Len(M.fields)}
  \cup {"missing"}

LookupCall(fn, M, column) ==
  LET r == Lookup(fn, M, column)
  IN  [fn |-> fn, M |-> M, column |-> column, s |-> r.s, err |-> r.err, panics |-> r.panics]

CallColumnErr ==
  /\ Len(lookups) < MaxLookups
  /\ \E M \in Models : \E column \in ColumnArgs(M) :
       lookups' = Append(lookups, LookupCall("ColumnErr", M, column))
  /\ UNCHANGED <<treeVars, strVars>>

CallColumn ==
  /\ Len(lookups) < MaxLookups
  /\ \E M \in Models : \E column \in ColumnArgs(M) :
       lookups' = Append(lookups, LookupCall("Column", M, column))
  /\ UNCHANGED <<treeVars, strVars>>

CallTableColumnErr ==
  /\ Len(lookups) < MaxLookups
  /\ \E M \in Models : \E column \in ColumnArgs(M) :
       lookups' = Append(lookups, LookupCall("TableColumnErr", M, column))
  /\ UNCHANGED <<treeVars, strVars>>

CallTableColumn ==
  /\ Len(lookups) < MaxLookups
  /\ \E M \in Models : \E column \in ColumnArgs(M) :
       lookups' = Append(lookups, LookupCall("TableColumn", M, column))
  /\ UNCHANGED <<treeVars, strVars>>

ModelNext == CallColumnErr \/ CallColumn \/ CallTableColumnErr \/ CallTableColumn

SpecModel == StrInit /\ [][ModelNext]_vars

-----------------------------------------------------------------------------
(* Vocabulary of the properties.                                           *)

\* what child i of the invoked root returns when the root invokes it
KidRes(i) == Render(pkg, root.kids[i], <<i>>)

KidResults == [i \in 1..Len(root.kids) |-> KidRes(i)]

\* the children that render text, and the children that fail, in child order
Rendered == SelectSeq(KidResults, LAMBDA r : r.err = NilErr /\ r.s # <<>>)

Failed == SelectSeq(KidResults, LAMBDA r : r.err # NilErr)

RECURSIVE ConcatAll(_)
ConcatAll(seqs) == IF seqs = <<>> THEN <<>> ELSE Head(seqs) \o ConcatAll(Tail(seqs))

\* a fragment without its white space
Proj(s) == SelectSeq(s, LAMBDA tok : tok \notin {" ", NL, TAB})

\* the errors an error joins, in order (a wrapped error is one cause)
RECURSIVE Causes(_)
Causes(e) ==
  IF e.k = "join" THEN ConcatAll([i \in 1..Len(e.es) |-> Causes(e.es[i])]) ELSE <<e>>

\* the bind values of the leaves of t, left to right, depth first
RECURSIVE LeafVals(_, _)
LeafVals(p, t) ==
  IF t.kids = <<>> THEN Render(p, t, <<>>).vals
  ELSE ConcatAll([i \in 1..Len(t.kids) |-> LeafVals(p, t.kids[i])])

RECURSIVE OnlyOps(_, _)
OnlyOps(t, allowed) ==
  /\ t.op \in allowed
  /\ \A i \in 1..Len(t.kids) : OnlyOps(t.kids[i], allowed)

RECURSIVE Subtrees(_)
Subtrees(t) == {t} \cup UNION {Subtrees(t.kids[i]) : i \in 1..Len(t.kids)}

\* the callbacks the root invoked itself: its children
DirectCalls == SelectSeq(res.calls, LAMBDA c : Len(c) = 1)

Keyword == IF root.op = "And" THEN "AND" ELSE "OR"

LoopCombinators == {"And", "Or", "Where", "Having", "GroupBy", "OrderBy", "New"}

-----------------------------------------------------------------------------
(* C1..C10                                                                 *)

\* C1: a tree of And, Or, Not, Where, Having and New over Eq and In leaves
\* that renders without error returns as parameter list the flat
\* concatenation of its leaves' bind values, left to right and depth first,
\* in every package.
C1_ParamsAreFlatLeafOrder ==
  (/\ done
   /\ OnlyOps(root, {"And", "Or", "Not", "Where", "Having", "New", "Eq", "In", "NoOp"})
   /\ res.err = NilErr)
  => res.vals = LeafVals(pkg, root)

\* C2: And, Or, Where, Having, GroupBy, OrderBy and New invoke every child
\* exactly once and in argument order, also after a child has failed, and
\* the error they return holds the error of every failing child, in child
\* order.
C2_AllChildrenInvokedAllErrorsKept ==
  (done /\ root.op \in LoopCombinators /\ Len(root.kids) >= 1)
  => /\ DirectCalls = [i \in 1..Len(root.kids) |-> <<i>>]
     /\ res.calls = <<<<>>>> \o ConcatAll([i \in 1..Len(root.kids) |-> KidRes(i).calls])
     /\ Failed # <<>> =>
          /\ res.err.k = "wrap"
          /\ Causes(res.err.es[1]) = [i \in 1..Len(Failed) |-> Failed[i].err]

\* C2 witness: a loop combinator was invoked with three children of which
\* the first and the last fail and the middle one renders.
C2_Witness ==
  /\ done /\ root.op \in LoopCombinators /\ Len(root.kids) = 3
  /\ KidRes(1).err # NilErr
  /\ KidRes(2).err = NilErr /\ KidRes(2).s # <<>>
  /\ KidRes(3).err # NilErr

\* C3: And, Or, Where, Having, GroupBy and OrderBy (and Not) whose children
\* all render an empty fragment with nil error return an empty fragment,
\* no parameters and nil error.
C3_AbsencePropagates ==
  (/\ done
   /\ root.op \in {"And", "Or", "Where", "Having", "GroupBy", "OrderBy", "Not"}
   /\ Len(root.kids) >= 1
   /\ \A i \in 1..Len(root.kids) : KidRes(i).err = NilErr /\ KidRes(i).s = <<>>)
  => res.s = <<>> /\ res.vals = <<>> /\ res.err = NilErr

\* C3 witness: Where(And(NoOp, NoOp)) was invoked, the And of two
\* conditionals that resolved to NoOp.
C3_Witness ==
  /\ done /\ root.op = "Where" /\ Len(root.kids) = 1
  /\ root.kids[1].op = "And"
  /\ root.kids[1].kids = <<NoOpNode, NoOpNode>>

\* C4: And / Or with no failing child and k >= 1 rendered children return
\* those k fragments in child order with the keyword between two of them
\* only (k-1 times) and the whole wrapped in parentheses, in every package.
C4_KeywordBetweenAndParenthesised ==
  (done /\ root.op \in {"And", "Or"} /\ res.err = NilErr /\ Rendered # <<>>)
  => Proj(res.s)
       = <<"(">>
          \o stringsJoin([i \in 1..Len(Rendered) |-> Proj(Rendered[i].s)], <<Keyword>>)
          \o <<")">>

C5Tree ==
  Node("Where", <<>>, FALSE, <<>>,
       <<Node("And", <<>>, FALSE, <<>>,
              <<Node("Eq", <<"id">>, FALSE, <<42>>, <<>>)>>)>>)

C6_NewSkipsEmptyChildren ==
  (done /\ root.op = "New" /\ res.err = NilErr /\ Len(root.kids) >= 1)
  => LET joined == stringsJoin([i \in 1..Len(Rendered) |-> Rendered[i].s], <<NL>>)
     IN  /\ res.s \in {joined, joined \o <<NL>>}
         /\ res.vals = ConcatAll([i \in 1..Len(root.kids) |-> KidRes(i).vals])

\* C7: OrderBy / GroupBy with no failing child put a comma between two
\* rendered children only: no leading comma, no trailing comma, k-1 commas
\* for k rendered children, whichever children are absent, in every package.
C7_CommasOnlyBetween ==
  (done /\ root.op \in {"OrderBy", "GroupBy"} /\ res.err = NilErr /\ Rendered # <<>>)
  => SubSeq(Proj(res.s), 3, Len(Proj(res.s)))
       = stringsJoin([i \in 1..Len(Rendered) |-> Proj(Rendered[i].s)], <<",">>)

\* C8: And, Or, Where, Having, GroupBy, OrderBy, Select(ops...) and New
\* constructed with no operator return an error wrapping ErrNoOps, an
\* empty fragment and no parameters, and invoke nothing.
C8_NoOperators ==
  (/\ done
   /\ root.op \in {"And", "Or", "Where", "Having", "GroupBy", "OrderBy", "Select", "New"}
   /\ root.kids = <<>>)
  => /\ Is(res.err, ErrNoOps)
     /\ res.s = <<>> /\ res.vals = <<>> /\ res.nilv
     /\ res.calls = <<<<>>>>

\* C8 witness: New() was invoked.
C8_Witness == done /\ root.op = "New" /\ root.kids = <<>>

\* C9 as stated: when more than one child of Join or Select(ops...) fails,
\* every child is invoked and the error holds every failing child's error.
C9_AsStated ==
  (done /\ root.op \in {"Join", "Select"} /\ Len(Failed) >= 2)
  => /\ DirectCalls = [i \in 1..Len(root.kids) |-> <<i>>]
     /\ \A i \in 1..Len(Failed) : Is(res.err, Failed[i].err)

\* C9 amended: when a child of Join or Select(ops...) fails, the children
\* up to the first failing one are invoked and no later one, and the error
\* returned wraps that first failing child's error alone.
C9_FirstErrorOnly ==
  (done /\ root.op \in {"Join", "Select"} /\ Failed # <<>>)
  => LET first == CHOOSE i \in 1..Len(root.kids) :
                    /\ KidRes(i).err # NilErr
                    /\ \A j \in 1..(i - 1) : KidRes(j).err = NilErr
     IN  /\ DirectCalls = [i \in 1..first |-> <<i>>]
         /\ res.err.k = "wrap"
         /\ res.err.es = <<KidRes(first).err>>
         /\ res.s = <<>> /\ res.vals = <<>>

\* C9 witness: a Join whose subject and condition both fail was invoked.
C9_Witness ==
  /\ done /\ root.op = "Join"
  /\ KidRes(1).err # NilErr /\ KidRes(2).err # NilErr

\* C10: whenever a built-in leaf or combinator returns a non-nil error, at
\* any depth of the tree, the fragment it returns is empty and its
\* parameter list is nil.
C10_ErrorMeansNothingElse ==
  done =>
    /\ res.err # NilErr => (res.s = <<>> /\ res.vals = <<>> /\ res.nilv)
    /\ \A t \in Subtrees(root) :
         LET r == Render(pkg, t, <<>>)
         IN  r.err # NilErr => (r.s = <<>> /\ r.vals = <<>> /\ r.nilv)

\* C10 witness: a combinator failed after one of its children had rendered
\* text and bound a value.
C10_Witness ==
  /\ done /\ res.err # NilErr /\ Len(root.kids) >= 2
  /\ KidRes(1).err = NilErr /\ KidRes(1).s # <<>> /\ KidRes(1).vals # <<>>
  /\ KidRes(2).err # NilErr

-----------------------------------------------------------------------------
(* C11..C20                                                                *)

\* what the operator value t returns when it is invoked on its own
Alone(t) == Render(pkg, t, <<>>)

\* C11: Eq(column, p) with p nil fails with an error wrapping ErrNilVal;
\* otherwise it returns column + " = ?" and a parameter list of exactly
\* one entry, the value p points to (not the pointer).
C11_EqBindsDereferencedValue ==
  done =>
    \A t \in Subtrees(root) :
      t.op = "Eq" =>
        IF t.isnil
        THEN Is(Alone(t).err, ErrNilVal)
        ELSE /\ Alone(t).err = NilErr
             /\ Alone(t).s = <<t.cols[1], " ", "=", " ", "?">>
             /\ Alone(t).vals = <<PlainVal(t.arg[1])>>

\* C13: In(column, values) with an empty slice fails with an error
\* wrapping ErrEmptySlice in the single-statement package and returns an
\* empty fragment, no parameters and nil error in the full-query and the
\* legacy package; no In renders an empty "IN ()" list.
C13_InOfEmptySlice ==
  done =>
    \A t \in Subtrees(root) :
      t.op = "In" =>
        /\ t.arg = <<>> =>
             IF pkg = "stmt"
             THEN /\ Is(Alone(t).err, ErrEmptySlice)
                  /\ Alone(t).s = <<>> /\ Alone(t).vals = <<>>
             ELSE /\ Alone(t).err = NilErr
                  /\ Alone(t).s = <<>> /\ Alone(t).vals = <<>>
        /\ \A i \in 1..(Len(Proj(Alone(t).s)) - 1) :
             ~(Proj(Alone(t).s)[i] = "(" /\ Proj(Alone(t).s)[i + 1] = ")")

\* C13 witness: in the single-statement package an In over an empty slice,
\* not guarded by IfNotEmpty, was invoked as a child of a combinator that
\* also holds an In over a non-empty slice.
C13_Witness ==
  /\ done /\ pkg = "stmt" /\ Len(root.kids) >= 2
  /\ \E i, j \in 1..Len(root.kids) :
       /\ root.kids[i].op = "In" /\ root.kids[i].arg = <<>>
       /\ root.kids[j].op = "In" /\ root.kids[j].arg # <<>>

\* C14: OrderBy over k >= 1 children that are all Asc / Desc on a non-nil
\* column returns nil error, the k directives in argument order joined by
\* commas, and a parameter list with zero entries.
C14_OrderByOfDirectives ==
  (/\ done /\ root.op = "OrderBy" /\ Len(root.kids) >= 1
   /\ \A i \in 1..Len(root.kids) :
        root.kids[i].op \in {"Asc", "Desc"} /\ ~root.kids[i].isnil)
  => /\ res.err = NilErr
     /\ SubSeq(Proj(res.s), 3, Len(Proj(res.s)))
          = stringsJoin([i \in 1..Len(root.kids) |-> Proj(KidRes(i).s)], <<",">>)
     /\ Len(res.vals) = 0

\* the context tags that carry the name of the operator t
OwnTags(t) ==
  CASE t.op = "Eq" -> {"eq (" \o t.cols[1] \o "): "}
    [] t.op = "In" -> {"in (" \o t.cols[1] \o "): "}
    [] t.op = "Asc" -> {"asc: "}
    [] t.op = "Desc" -> {"desc: "}
    [] t.op = "Columns" -> {"columns: "}
    [] t.op \in {"Select", "SelectColumns"} -> {"select: "}
    [] t.op = "From" -> {"from: "}
    [] t.op = "SubQuery" -> {"subquery: ", "subQuery: "}
    [] t.op = "Join" -> {t.cols[1] \o " join: "}
    [] t.op = "Not" -> {"not: "}
    [] t.op = "And" -> {"and: ", "AND: "}
    [] t.op = "Or" -> {"or: ", "OR: "}
    [] t.op = "Where" -> {"where: ", "where:" \o NL \o TAB \o TAB}
    [] t.op = "Having" -> {"having: ", "having:" \o NL \o TAB \o TAB}
    [] t.op = "OrderBy" -> {"orderBy: ", "orderBy:" \o NL \o TAB \o TAB}
    [] t.op = "GroupBy" -> {"groupBy: ", "groupBy:" \o NL \o TAB \o TAB}
    [] t.op = "New" -> {"query: ", "query:" \o NL}
    [] t.op = "PgPrepareOp" -> {"pgPrepare: ", "pgPrepareOp: "}
    [] OTHER -> {}

\* C15: every error a built-in operator returns is wrapped with a tag
\* carrying that operator's own name, at every level of the tree (so the
\* tags from the root to the failing leaf form a chain with no level
\* missing), and And / Or use one tag for all their errors.
C15_ErrorsTaggedWithOwnName ==
  done =>
    /\ \A t \in Subtrees(root) :
         Alone(t).err # NilErr =>
           /\ Alone(t).err.k = "wrap"
           /\ Alone(t).err.tag \in OwnTags(t)
    /\ \A t, u \in Subtrees(root) :
         (/\ t.op = u.op /\ t.op \in {"And", "Or"}
          /\ Alone(t).err # NilErr /\ Alone(u).err # NilErr)
         => Alone(t).err.tag = Alone(u).err.tag

\* C16: Not(op) invokes op exactly once; if op fails it returns an error
\* wrapping op's error; if op renders an empty fragment it returns an
\* empty fragment, no parameters and nil error; otherwise it returns
\* "NOT(" + fragment + ")" and op's parameter list unchanged.
C16_Not ==
  done =>
    \A t \in Subtrees(root) :
      t.op = "Not" =>
        LET r == Alone(t)
            k == Render(pkg, t.kids[1], <<1>>)
        IN  /\ r.calls = <<<<>>>> \o k.calls
            /\ Cardinality({i \in 1..Len(r.calls) : r.calls[i] = <<1>>}) = 1
            /\ IF k.err # NilErr
               THEN r.err.k = "wrap" /\ r.err.es = <<k.err>> /\ r.s = <<>> /\ r.vals = <<>>
               ELSE IF k.s = <<>>
               THEN r.err = NilErr /\ r.s = <<>> /\ r.vals = <<>>
               ELSE /\ r.err = NilErr
                    /\ r.s = <<"NOT", "(">> \o k.s \o <<")">>
                    /\ r.vals = k.vals

\* C16 witness: a Not whose child is an And of an absent condition and a
\* condition that renders and binds a value was invoked.
C16_Witness ==
  /\ done /\ root.op = "Not" /\ root.kids[1].op = "And"
  /\ NoOpNode \in {root.kids[1].kids[i] : i \in 1..Len(root.kids[1].kids)}
  /\ KidRes(1).err = NilErr /\ KidRes(1).s # <<>> /\ KidRes(1).vals # <<>>

\* out is query with its i-th "?" from the left replaced by "$i", for every
\* i, and every other token kept in place
Numbered(query, out) ==
  /\ Len(out) = Len(query)
  /\ \A j \in 1..Len(query) :
       out[j] = IF query[j] = "?"
                THEN "$" \o ToString(Occurrences(SubSeq(query, 1, j), "?"))
                ELSE query[j]
  /\ Occurrences(out, "?") = 0

\* C19: PgPrepare(query, args) on a query with K "?" and K args returns
\* the query with the i-th "?" from the left replaced by "$i" (i = 1..K),
\* every other character kept in its place, and no "?" left; PgPrepareOp
\* returns that text for the query its operator renders.
C19_PgPrepareNumbersPlaceholders ==
  /\ (pg # Unprepared /\ Occurrences(res.s, "?") = Len(res.vals))
     => Numbered(res.s, pg[1])
  /\ (/\ done /\ root.op = "PgPrepareOp" /\ KidRes(1).err = NilErr
      /\ Occurrences(KidRes(1).s, "?") = Len(KidRes(1).vals))
     => Numbered(KidRes(1).s, res.s)

\* C19 witness: PgPrepare was applied to a rendered query with at least
\* two "?" and as many parameters.
C19_Witness ==
  /\ pg # Unprepared
  /\ Occurrences(res.s, "?") >= 2
  /\ Occurrences(res.s, "?") = Len(res.vals)

\* C20: Join(type, subject, condition) with both children succeeding
\* renders type + " JOIN " + subject + " ON " + condition for each join
\* type, and returns the subject's parameters followed by the condition's,
\* element by element, in the current and in the legacy package.
C20_JoinTextAndFlatParams ==
  (/\ done /\ root.op = "Join"
   /\ KidRes(1).err = NilErr /\ KidRes(2).err = NilErr)
  => /\ res.err = NilErr
     /\ res.s = JoinTypeText(root.cols[1]) \o <<" ", "JOIN", " ">> \o KidRes(1).s
                  \o <<" ", "ON", " ">> \o KidRes(2).s
     /\ res.vals = KidRes(1).vals \o KidRes(2).vals
     /\ Len(res.vals) = Len(KidRes(1).vals) + Len(KidRes(2).vals)

\* C12: In(column, values) with N >= 1 values renders exactly N "?" and
\* returns exactly N parameters, equal to values element by element in
\* the original order.
C12_InPlaceholdersAndValues ==
  done =>
    \A t \in Subtrees(root) :
      (t.op = "In" /\ Len(t.arg) >= 1) =>
        /\ Alone(t).err = NilErr
        /\ Occurrences(Alone(t).s, "?") = Len(t.arg)
        /\ Len(Alone(t).vals) = Len(t.arg)
        /\ \A i \in 1..Len(t.arg) : Alone(t).vals[i] = PlainVal(t.arg[i])

\* C12 witness: the test query was invoked with at least two pizzas, so
\* its In("pizzas", filters.Pizzas) was rendered.
C12_Witness ==
  /\ done /\ Len(filters.Pizzas) >= 2
  /\ \E t \in Subtrees(root) : t.op = "In" /\ t.arg = filters.Pizzas

\* the operator value at the end of a path of child indices
RECURSIVE NodeAt(_, _)
NodeAt(t, path) == IF path = <<>> THEN t ELSE NodeAt(t.kids[Head(path)], Tail(path))

\* the operator values the render of the root invoked
InvokedOps == {NodeAt(root, res.calls[i]) : i \in 1..Len(res.calls)}

C18_TestQueryNeverFails ==
  done =>
    /\ res.err = NilErr
    /\ \A t \in Subtrees(root) : Alone(t).err = NilErr
    /\ res.s # <<>>

\* C18 witness: the test query was invoked with no Name, no Pizzas and no
\* OrderBy, so that its Where and its OrderBy rendered nothing.
C18_Witness ==
  /\ done /\ filters = NoFilters /\ root.op = "New" /\ Len(root.kids) = 4
  /\ KidRes(3).s = <<>> /\ KidRes(4).s = <<>>

-----------------------------------------------------------------------------
(* C21..C30                                                                *)

\* C21: Select(columns...) with no column fails with an error wrapping
\* ErrNoColumns and with n >= 1 columns renders SELECT and the columns in
\* order with a comma between two of them only; Select(ops...) with no
\* failing child renders SELECT and its children's fragments with a comma
\* between two of them only, no comma before the first or after the last,
\* and the legacy one fails with ErrNoColumns when every child is empty.
C21_SelectCommaSeparated ==
  /\ (done /\ root.op = "SelectColumns") =>
       IF root.cols = <<>>
       THEN Is(res.err, ErrNoColumns) /\ res.s = <<>>
       ELSE /\ res.err = NilErr
            /\ Proj(res.s)
                 = <<"SELECT">>
                    \o stringsJoin([i \in 1..Len(root.cols) |-> <<root.cols[i]>>], <<",">>)
  /\ (done /\ root.op = "Select" /\ root.kids # <<>> /\ Failed = <<>>) =>
       IF Rendered = <<>>
       THEN pkg = "legacy" => Is(res.err, ErrNoColumns)
       ELSE /\ res.err = NilErr
            /\ Proj(res.s)
                 = <<"SELECT">>
                    \o stringsJoin([i \in 1..Len(Rendered) |-> Proj(Rendered[i].s)], <<",">>)

C28_OneParamPerPlaceholder ==
  (done /\ res.err = NilErr)
  => /\ (\A t \in Subtrees(root) : t.op # "PgPrepareOp") =>
          /\ Len(res.vals) = Occurrences(res.s, "?")
          /\ pg # Unprepared => Occurrences(pg[1], "?") = 0
     /\ (/\ root.op = "PgPrepareOp"
         /\ \A t \in Subtrees(root.kids[1]) : t.op # "PgPrepareOp") =>
          Occurrences(res.s, "?") = 0

\* the If calls made so far, and those whose predicate was true, in order
IfCalls == {ifs[i] : i \in 1..Len(ifs)}

Bound == SelectSeq(ifs, LAMBDA c : c.pred)

\* the ":name" references of a text, in order
RefPositions(s) == {i \in 1..Len(s) - 1 : s[i] = ":"}

Refs(s) == {s[i + 1] : i \in RefPositions(s)}

\* C23: a call of If (or of a proxy) whose predicate is false leaves the
\* Params map as it was, does not call the printer and returns the empty
\* string; one whose predicate is true adds exactly one entry to the map,
\* holding val, and returns printer(name) for the name of that new entry.
C23_IfBindsOneNewEntry ==
  \A c \in IfCalls :
    IF ~c.pred
    THEN c.after = c.before /\ ~c.printed /\ c.out = <<>>
    ELSE /\ Cardinality(DOMAIN c.after) = Cardinality(DOMAIN c.before) + 1
         /\ DOMAIN c.after = DOMAIN c.before \cup {c.name}
         /\ c.after[c.name] = c.val
         /\ \A k \in DOMAIN c.before : c.after[k] = c.before[k]
         /\ c.printed /\ c.out = Printer(c.printer, c.name)

\* C29: on a Params map that starts empty and that only If and its proxies
\* modify, the map holds exactly one entry per call whose predicate was
\* true, the i-th such call (from 0) used the name "arg" + i, the names are
\* pairwise distinct and every entry holds the value of the call that made it.
C29_OneEntryPerBoundValue ==
  edits = 0 =>
    /\ Cardinality(DOMAIN pmap) = Len(Bound)
    /\ DOMAIN pmap = {Bound[i].name : i \in 1..Len(Bound)}
    /\ \A i \in 1..Len(Bound) :
         /\ Bound[i].name = "arg" \o ToString(i - 1)
         /\ pmap[Bound[i].name] = Bound[i].val
         /\ \A j \in 1..Len(Bound) : Bound[j].name = Bound[i].name => j = i

\* C29 witness: calls bound values of different types after a call whose
\* predicate was false, on a map the caller did not touch.
C29_Witness ==
  /\ edits = 0 /\ Len(Bound) >= 2 /\ Len(ifs) > Len(Bound)
  /\ ~ifs[1].pred
  /\ Bound[1].val.t # Bound[2].val.t

\* C30: whatever the Params map holds, entries the caller put or deleted
\* itself included, a call of If whose predicate is true binds its value
\* under a key the map did not hold before the call, so that every entry
\* the map held keeps its key and its value.
C30_IfNeverReusesAKey ==
  \A c \in IfCalls :
    c.pred =>
      /\ c.name \notin DOMAIN c.before
      /\ \A k \in DOMAIN c.before : k \in DOMAIN c.after /\ c.after[k] = c.before[k]

\* the non-empty strings of a list, in order
NonEmpty(list) == SelectSeq(list, LAMBDA f : f # <<>>)

\* C24: Cond (And, Or), Not, Section (Where, Having) and OrderBy return the
\* empty string when all their inputs are empty, so Where(And(f1, ..., fn))
\* is empty exactly when every fi is; with k >= 1 non-empty filters Cond
\* returns "(\n\t", the k filters in order joined by " OP\n\t", and "\n)",
\* which adds the operator k-1 times and none next to a skipped filter.
C24_EmptyInEmptyOut ==
  LET k == Len(NonEmpty(last.args))
  IN  /\ (last.fn \in {"Cond", "Not", "Section", "OrderBy"} /\ k = 0) => last.out = <<>>
      /\ (last.fn \in {"Not", "Section", "OrderBy"} /\ k >= 1) => last.out # <<>>
      /\ (last.fn = "Cond" /\ k >= 1) =>
           /\ last.out = <<"(", NL, TAB>>
                           \o stringsJoin(NonEmpty(last.args), <<" ", last.op, NL, TAB>>)
                           \o <<NL, ")">>
           /\ Occurrences(last.out, last.op)
                = (k - 1) + Occurrences(ConcatAll(last.args), last.op)
      /\ (/\ last.fn = "Section" /\ last.op = "WHERE"
          /\ last.from[1].fn = "Cond" /\ last.from[1].op = "AND"
          /\ last.args = <<last.from[1].out>>) =>
           (last.out = <<>> <=> NonEmpty(last.from[1].args) = <<>>)

\* C24 witness: Where(And(f1, "", f2)) was called with f1 and f2 printed
\* filters.
C24_Witness ==
  /\ last.fn = "Section" /\ last.op = "WHERE" /\ last.out # <<>>
  /\ last.from[1].fn = "Cond" /\ last.from[1].op = "AND"
  /\ Len(last.from[1].args) = 3
  /\ last.from[1].args[2] = <<>>
  /\ Len(NonEmpty(last.from[1].args)) = 2
  /\ last.args = <<last.from[1].out>>

\* the token after position i of s that is not white space ("" if none)
NextWord(s, i) ==
  LET later == {j \in (i + 1)..Len(s) : s[j] \notin {" ", NL, TAB}}
  IN  IF later = {} THEN ""
      ELSE s[CHOOSE j \in later : \A l \in later : j <= l]

\* C25: in the query FuzzFilters assembles on one fresh Params map, for
\* every combination of zero and non-zero inputs, the ":argN" names of the
\* text are the keys of params, each name occurs once, each key holds the
\* value of the If call that printed it, and a group whose filters are all
\* absent adds no operator, no empty parentheses and no WHERE or HAVING.
C25_FuzzQueryNamesMatchParams ==
  last.fn = "FuzzFilters" =>
    LET q == last.out
        id == ifs[1].pred
        name == ifs[2].pred
        createdAt == ifs[3].pred
        count == ifs[4].pred
        Once(b) == IF b THEN 1 ELSE 0
    IN  /\ Refs(q) = DOMAIN pmap
        /\ Cardinality(RefPositions(q)) = Cardinality(DOMAIN pmap)
        /\ \A c \in IfCalls :
             IF c.pred
             THEN Refs(c.out) = {c.name} /\ pmap[c.name] = c.val
             ELSE c.out = <<>>
        /\ Occurrences(q, "OR") = Once(name /\ createdAt)
        /\ Occurrences(q, "AND") = Once(id /\ (name \/ createdAt))
        /\ Occurrences(q, "WHERE") = Once(id \/ name \/ createdAt)
        /\ Occurrences(q, "HAVING") = Once(count)
        /\ \A i \in 1..Len(q) : q[i] = "(" => NextWord(q, i) # ")"
        /\ \A i \in 1..Len(q) :
             q[i] \in {"AND", "OR", "WHERE", "HAVING"} => NextWord(q, i) \notin {"", ")"}

\* C25 witness: the fuzz target ran with id, name and count zero, so that
\* the HAVING group and all of the WHERE group but created_at were absent.
C25_Witness ==
  /\ last.fn = "FuzzFilters"
  /\ ~ifs[1].pred /\ ~ifs[2].pred /\ ifs[3].pred /\ ~ifs[4].pred
  /\ DOMAIN pmap = {"arg0"}

\* the text a string or a pointer to a string stands for
Text(val, hp) == IF val.t = "string" THEN val.s ELSE hp[val.a]

\* fmt's pattern around a text
Pattern(fmt, s) ==
  CASE fmt = "FmtStartsWith" -> s \o <<"%">>
    [] fmt = "FmtEndsWith" -> <<"%">> \o s
    [] fmt = "FmtContains" -> <<"%">> \o s \o <<"%">>

\* C26: FmtStartsWith, FmtEndsWith and FmtContains return an empty string
\* or a nil pointer as it is, and otherwise the text with the "%" added,
\* leaving the caller's own string as it was; IfNotZero and IfNotNil
\* decide on the formatted value as they would on the original.
C26_FormattingKeepsAbsence ==
  /\ \A a \in 1..Len(HeapInit) : heap[a] = HeapInit[a]
  /\ \A c \in IfCalls :
       c.fmt \in Fmts =>
         /\ IF c.orig = Zero(c.orig.t)
            THEN c.val = c.orig /\ c.heap1 = c.heap0
            ELSE Text(c.val, c.heap1) = Pattern(c.fmt, Text(c.orig, c.heap0))
         /\ \A a \in 1..Len(c.heap0) : c.heap1[a] = c.heap0[a]
         /\ c.pred = Pred(c.fn, c.orig)
         /\ c.printed = c.pred

\* C26 witness: If was called on a formatted empty string and on
\* FmtContains of a pointer to a non-empty string.
C26_Witness ==
  /\ \E c \in IfCalls : c.fmt \in Fmts /\ c.orig = StrV(<<>>)
  /\ \E c \in IfCalls : c.fmt = "FmtContains" /\ c.orig = PtrV(1) /\ c.pred

\* the bare column names of a model: the db tag, or else the field name
BareColumns(M) ==
  {IF M.fields[i].db = "" THEN M.fields[i].Name ELSE M.fields[i].db :
     i \in 1..Len(M.fields)}

Lookups == {lookups[i] : i \in 1..Len(lookups)}

\* C27: ColumnErr / TableColumnErr called with a bare column name of the
\* model return TableName + "." + name and a nil error, and called with a
\* name that is not a column of the model return an error; Column /
\* TableColumn return the same string and panic exactly when ColumnErr
\* returns an error.
C27_BareColumnIsPrefixed ==
  \A l \in Lookups :
    /\ l.fn \in {"ColumnErr", "TableColumnErr"} =>
         IF l.column \in BareColumns(l.M)
         THEN l.err = NilErr /\ l.s = l.M.TableName \o "." \o l.column
         ELSE l.err # NilErr
    /\ l.fn \in {"Column", "TableColumn"} =>
         IF l.column \in BareColumns(l.M)
         THEN ~l.panics /\ l.s = l.M.TableName \o "." \o l.column
         ELSE l.panics
    /\ l.fn = "Column" => (l.panics <=> ColumnErr(l.M, l.column).err # NilErr)
    /\ l.fn = "TableColumn" => (l.panics <=> TableColumnErr(l.M, l.column).err # NilErr)

====
